---- MODULE Spec2Model ----
(***************************************************************************)
(* A model of the kfs kernel's terminal subsystem: the PS/2 scancode       *)
(* decoder (src/io/keyboard.rs) and the cooperative lock (src/mutex.rs).   *)
(*                                                                         *)
(* An Option<T> is a sequence of length at most one: None is <<>> and      *)
(* Some(x) is <<x>>. A char is a one-character string, except the control  *)
(* characters that have no string escape, which are spelled out.           *)
(***************************************************************************)
EXTENDS Naturals, Sequences, FiniteSets, TLC

VARIABLES
    state,          \* Qwerty::state
    modifiers,      \* Qwerty::modifiers, the u16 inside Modifiers
    calls,          \* the advance calls made so far: what each was given and returned
    locked,         \* Mutex::locked
    guards,         \* the MutexGuard values alive
    value,          \* Mutex::value, the protected T
    panic,          \* the message of the panic that stopped the kernel, if any
    ops,            \* the operations made on the Mutex so far
    cursor_x,       \* VgaBuffer::cursor_x
    cursor_y,       \* VgaBuffer::cursor_y
    current_color,  \* VgaBuffer::current_color
    buffer,         \* the text-mode memory at VGA_BUFFER_ADDRESS: one u16 per cell
    cmdline,        \* VgaBuffer::cmdline
    cmdline_len,    \* VgaBuffer::cmdline_len
    crtc,           \* the CRT controller behind ports 0x3D4 and 0x3D5
    last,           \* the last operation of the terminal driver: what it did
    handler,        \* where crash_and_burn stands
    pc              \* where main stands: the next step of the kernel

vars ==
    <<state, modifiers, calls, locked, guards, value, panic, ops, cursor_x, cursor_y,
      current_color, buffer, cmdline, cmdline_len, crtc, last, handler, pc>>

kbdVars == <<state, modifiers, calls>>

mutexVars == <<locked, guards, value, panic, ops>>

termVars == <<cursor_x, cursor_y, current_color, buffer, cmdline, cmdline_len, crtc, last>>

None == <<>>

Some(x) == <<x>>

(***************************************************************************)
(* Bounds of the model.                                                    *)
(***************************************************************************)
\* The longest scancode sequence fed to one decoder.
MaxFeeds == 4

\* The longest sequence of operations made on the Mutex.
MaxOps == 6

\* The protected value is one of 0 .. MaxValue.
MaxValue == 2

\* The characters put after the screen has scrolled.
MaxAfterScroll == 2

\* The calls of get_line in a run.
MaxPolls == 3

\* The operations the kernel makes on the terminal before it panics.
MaxKernelOps == 2

\* The calls that print, clear or set the colour in a run.
MaxPrints == 3

\* The calls main makes on the terminal in a run.
MaxCalls == 10

(***************************************************************************)
(* enum State                                                              *)
(***************************************************************************)
Neutral == "Neutral"

E0 == "E0"

State == {Neutral, E0}

\* u8
Byte == 0 .. 255

(***************************************************************************)
(* struct Modifiers(u16): the bit numbers.                                 *)
(***************************************************************************)
LEFT_CONTROL_BIT == 0

RIGHT_CONTROL_BIT == 1

LEFT_SHIFT_BIT == 2

RIGHT_SHIFT_BIT == 3

LEFT_ALT_BIT == 4

RIGHT_ALT_BIT == 5

NUM_LOCK_BIT == 8

CAPS_LOCK_BIT == 9

NUM_LOCK_PRESSED_BIT == 11

CAPS_LOCK_PRESSED_BIT == 12

\* Modifiers::EMPTY
EMPTY == 0

\* self.0 & (1 << bit) != 0
is_bit_set(m, bit) == (m \div (2 ^ bit)) % 2 = 1

\* self.0 ^= 1 << bit
toggle_bit(m, bit) == IF is_bit_set(m, bit) THEN m - 2 ^ bit ELSE m + 2 ^ bit

\* self.0 |= 1 << bit
set_bit(m, bit) == IF is_bit_set(m, bit) THEN m ELSE m + 2 ^ bit

\* self.0 &= !(1 << bit)
clear_bit(m, bit) == IF is_bit_set(m, bit) THEN m - 2 ^ bit ELSE m

left_control(m) == is_bit_set(m, LEFT_CONTROL_BIT)

right_control(m) == is_bit_set(m, RIGHT_CONTROL_BIT)

left_shift(m) == is_bit_set(m, LEFT_SHIFT_BIT)

right_shift(m) == is_bit_set(m, RIGHT_SHIFT_BIT)

left_alt(m) == is_bit_set(m, LEFT_ALT_BIT)

right_alt(m) == is_bit_set(m, RIGHT_ALT_BIT)

caps_lock(m) == is_bit_set(m, CAPS_LOCK_BIT)

num_lock(m) == is_bit_set(m, NUM_LOCK_BIT)

caps_lock_pressed(m) == is_bit_set(m, CAPS_LOCK_PRESSED_BIT)

num_lock_pressed(m) == is_bit_set(m, NUM_LOCK_PRESSED_BIT)

\* shift() that reads the left Shift bit alone.
shift_left_only(m) == left_shift(m)

shift(m) == left_shift(m) \/ right_shift(m)

control(m) == left_control(m) \/ right_control(m)

alt(m) == left_alt(m) \/ right_alt(m)

\* shifted ignoring CapsLock.
shifted_without_caps_lock(m) == shift(m)

\* self.shift() ^ self.caps_lock()
shifted(m) == shift(m) # caps_lock(m)

toggle_num_lock(m) == toggle_bit(m, NUM_LOCK_BIT)

toggle_caps_lock(m) == toggle_bit(m, CAPS_LOCK_BIT)

set_left_shift(m) == set_bit(m, LEFT_SHIFT_BIT)

\* A clear_left_shift that clears the bit of the other Shift key.
clear_left_shift_wrong_bit(m) == clear_bit(m, RIGHT_SHIFT_BIT)

clear_left_shift(m) == clear_bit(m, LEFT_SHIFT_BIT)

set_right_shift(m) == set_bit(m, RIGHT_SHIFT_BIT)

clear_right_shift(m) == clear_bit(m, RIGHT_SHIFT_BIT)

set_left_control(m) == set_bit(m, LEFT_CONTROL_BIT)

clear_left_control(m) == clear_bit(m, LEFT_CONTROL_BIT)

\* A set_right_control that sets the bit of the left Control key.
set_right_control_wrong_bit(m) == set_bit(m, LEFT_CONTROL_BIT)

set_right_control(m) == set_bit(m, RIGHT_CONTROL_BIT)

clear_right_control(m) == clear_bit(m, RIGHT_CONTROL_BIT)

set_left_alt(m) == set_bit(m, LEFT_ALT_BIT)

clear_left_alt(m) == clear_bit(m, LEFT_ALT_BIT)

set_right_alt(m) == set_bit(m, RIGHT_ALT_BIT)

clear_right_alt(m) == clear_bit(m, RIGHT_ALT_BIT)

\* The body sets CAPS_LOCK_BIT, the lock value, not CAPS_LOCK_PRESSED_BIT.
set_caps_lock_pressed(m) == set_bit(m, CAPS_LOCK_BIT)

\* The body clears CAPS_LOCK_BIT.
clear_caps_lock_pressed(m) == clear_bit(m, CAPS_LOCK_BIT)

\* The body sets NUM_LOCK_BIT, the lock value, not NUM_LOCK_PRESSED_BIT.
set_num_lock_pressed(m) == set_bit(m, NUM_LOCK_BIT)

\* The body clears NUM_LOCK_BIT.
clear_num_lock_pressed(m) == clear_bit(m, NUM_LOCK_BIT)

(***************************************************************************)
(* The values a Modifiers can take through its public methods, starting    *)
(* from EMPTY, as far as advance can tell them apart: every set of the     *)
(* bits that some method sets or toggles and that advance reads or writes. *)
(* No method writes a super bit or a pressed-edge bit; advance neither     *)
(* reads nor writes the scroll lock bit, which stays clear here.           *)
(***************************************************************************)
WritableBits ==
    {LEFT_CONTROL_BIT, RIGHT_CONTROL_BIT, LEFT_SHIFT_BIT, RIGHT_SHIFT_BIT,
     LEFT_ALT_BIT, RIGHT_ALT_BIT, NUM_LOCK_BIT, CAPS_LOCK_BIT}

RECURSIVE with_bits(_)
with_bits(bits) ==
    IF bits = {} THEN EMPTY
    ELSE LET b == CHOOSE x \in bits : TRUE
         IN  set_bit(with_bits(bits \ {b}), b)

ModifierValues == {with_bits(bits) : bits \in SUBSET WritableBits}

(***************************************************************************)
(* Qwerty::advance: the printable arms of the match, one row per scancode: *)
(*   (Neutral, code) if !self.modifiers.shifted() => Some(unshifted),      *)
(*   (Neutral, code) if self.modifiers.shifted()  => Some(shifted).        *)
(***************************************************************************)
\* The grave accent character, U+0060, which a TLA+ string cannot hold.
Backtick == "U+0060"

KeyTable ==
    {<<\h02, "1", "!">>, <<\h03, "2", "@">>, <<\h04, "3", "#">>, <<\h05, "4", "$">>,
     <<\h06, "5", "%">>, <<\h07, "6", "^">>, <<\h08, "7", "&">>, <<\h09, "8", "*">>,
     <<\h0A, "9", "(">>, <<\h0B, "0", ")">>, <<\h0C, "-", "_">>, <<\h0D, "=", "+">>,
     <<\h10, "q", "Q">>, <<\h11, "w", "W">>, <<\h12, "e", "E">>, <<\h13, "r", "R">>,
     <<\h14, "t", "T">>, <<\h15, "y", "Y">>, <<\h16, "u", "U">>, <<\h17, "i", "I">>,
     <<\h18, "o", "O">>, <<\h19, "p", "P">>, <<\h1A, "[", "{">>, <<\h1B, "]", "}">>,
     <<\h2B, "\\", "|">>, <<\h1E, "a", "A">>, <<\h1F, "s", "S">>, <<\h20, "d", "D">>,
     <<\h21, "f", "F">>, <<\h22, "g", "G">>, <<\h23, "h", "H">>, <<\h24, "j", "J">>,
     <<\h25, "k", "K">>, <<\h26, "l", "L">>, <<\h27, ";", ":">>, <<\h28, "'", "\"">>,
     <<\h29, Backtick, "~">>, <<\h2C, "z", "Z">>, <<\h2D, "x", "X">>, <<\h2E, "c", "C">>,
     <<\h2F, "v", "V">>, <<\h30, "b", "B">>, <<\h31, "n", "N">>, <<\h32, "m", "M">>,
     <<\h33, ",", "<">>, <<\h34, ".", ">">>, <<\h35, "/", "?">>}

PrintableKeys == {row[1] : row \in KeyTable}

KeyRow(scancode) == CHOOSE row \in KeyTable : row[1] = scancode

Unshifted(scancode) == KeyRow(scancode)[2]

Shifted(scancode) == KeyRow(scancode)[3]

\* The keypad arms: (Neutral, code) if self.modifiers.num_lock() => Some(char).
KeypadTable ==
    {<<\h47, "7">>, <<\h48, "8">>, <<\h49, "9">>, <<\h4B, "4">>, <<\h4C, "5">>,
     <<\h4D, "6">>, <<\h4F, "1">>, <<\h50, "2">>, <<\h51, "3">>, <<\h52, "0">>,
     <<\h53, ".">>}

KeypadKeys == {row[1] : row \in KeypadTable}

KeypadChar(scancode) == (CHOOSE row \in KeypadTable : row[1] = scancode)[2]

\* The backspace character, U+0008.
Backspace == "U+0008"

\* The escape character, U+001B.
Escape == "U+001B"

\* A transition that takes 0xE0 to E0 from either state.
next_state_from_any(st, scancode) == IF scancode = \hE0 THEN E0 ELSE Neutral

\* self.state = match (st, scancode) { (Neutral, 0xE0) => E0, _ => Neutral }
next_state(st, scancode) ==
    IF st = Neutral /\ scancode = \hE0 THEN E0 ELSE Neutral

\* A CapsLock make that toggles on every make, held or not.
caps_lock_make_repeating(m) == toggle_caps_lock(m)

\* (Neutral, 0x3A): the body of the arm.
caps_lock_make(m) ==
    IF ~caps_lock_pressed(m)
    THEN toggle_caps_lock(set_caps_lock_pressed(m))
    ELSE m

\* (Neutral, 0x45): the body of the arm.
num_lock_make(m) ==
    IF ~num_lock_pressed(m)
    THEN toggle_num_lock(set_num_lock_pressed(m))
    ELSE m

\* A match whose left Shift make arm matches 0x2A in either state: after
\* 0xE0 too, where the keyboard sends it with the navigation keys.
next_modifiers_shift_in_any_state(st, m, scancode) ==
    CASE scancode = \h2A -> set_left_shift(m)
      [] st = Neutral /\ scancode = \hAA -> clear_left_shift(m)
      [] st = Neutral /\ scancode = \h36 -> set_right_shift(m)
      [] st = Neutral /\ scancode = \hB6 -> clear_right_shift(m)
      [] st = Neutral /\ scancode = \h1D -> set_left_control(m)
      [] st = Neutral /\ scancode = \h9D -> clear_left_control(m)
      [] st = Neutral /\ scancode = \h3A -> caps_lock_make(m)
      [] st = Neutral /\ scancode = \hBA -> clear_caps_lock_pressed(m)
      [] st = E0 /\ scancode = \h1D -> set_right_control(m)
      [] st = E0 /\ scancode = \h9D -> clear_right_control(m)
      [] st = Neutral /\ scancode = \h38 -> set_left_alt(m)
      [] st = Neutral /\ scancode = \hB8 -> clear_left_alt(m)
      [] st = E0 /\ scancode = \h38 -> set_right_alt(m)
      [] st = E0 /\ scancode = \hB8 -> clear_right_alt(m)
      [] st = Neutral /\ scancode = \h45 -> num_lock_make(m)
      [] st = Neutral /\ scancode = \hC5 -> clear_num_lock_pressed(m)
      [] OTHER -> m

\* The modifiers after the match of advance: the arms that update them.
next_modifiers(st, m, scancode) ==
    CASE st = Neutral /\ scancode = \h2A -> set_left_shift(m)
      [] st = Neutral /\ scancode = \hAA -> clear_left_shift(m)
      [] st = Neutral /\ scancode = \h36 -> set_right_shift(m)
      [] st = Neutral /\ scancode = \hB6 -> clear_right_shift(m)
      [] st = Neutral /\ scancode = \h1D -> set_left_control(m)
      [] st = Neutral /\ scancode = \h9D -> clear_left_control(m)
      [] st = Neutral /\ scancode = \h3A -> caps_lock_make(m)
      [] st = Neutral /\ scancode = \hBA -> clear_caps_lock_pressed(m)
      [] st = E0 /\ scancode = \h1D -> set_right_control(m)
      [] st = E0 /\ scancode = \h9D -> clear_right_control(m)
      [] st = Neutral /\ scancode = \h38 -> set_left_alt(m)
      [] st = Neutral /\ scancode = \hB8 -> clear_left_alt(m)
      [] st = E0 /\ scancode = \h38 -> set_right_alt(m)
      [] st = E0 /\ scancode = \hB8 -> clear_right_alt(m)
      [] st = Neutral /\ scancode = \h45 -> num_lock_make(m)
      [] st = Neutral /\ scancode = \hC5 -> clear_num_lock_pressed(m)
      [] OTHER -> m

\* The scancodes of the arms that update the modifiers, per state.
ModifierCodes(st) ==
    IF st = Neutral
    THEN {\h2A, \hAA, \h36, \hB6, \h1D, \h9D, \h3A, \hBA, \h38, \hB8, \h45, \hC5}
    ELSE {\h1D, \h9D, \h38, \hB8}

\* A decoder whose keypad arms have no num_lock() guard.
keypad_result_unguarded(m, scancode) == Some(KeypadChar(scancode))

\* (Neutral, 0x47 ..= 0x53) if self.modifiers.num_lock() => Some(char); the
\* scancode is one of KeypadKeys.
keypad_result(m, scancode) ==
    IF num_lock(m) THEN Some(KeypadChar(scancode)) ELSE None

\* An Enter arm that matches the unprefixed byte only.
enter_arm_neutral_only(st) == st = Neutral

\* The pattern (Neutral | E0, 0x1C): the states it matches.
enter_arm(st) == st \in {Neutral, E0}

\* The match of advance with the keypad arms written (_, code): they match
\* after the 0xE0 prefix too.
result_keypad_in_any_state(st, m, scancode) ==
    CASE scancode \in ModifierCodes(st) -> None
      [] st = Neutral /\ scancode \in PrintableKeys /\ ~shifted(m) ->
            Some(Unshifted(scancode))
      [] st = Neutral /\ scancode \in PrintableKeys /\ shifted(m) ->
            Some(Shifted(scancode))
      [] st = E0 /\ scancode = \h35 -> Some("/")
      [] scancode \in KeypadKeys -> keypad_result(m, scancode)
      [] st = Neutral /\ scancode = \h39 -> Some(" ")
      [] enter_arm(st) /\ scancode = \h1C -> Some("\n")
      [] st = Neutral /\ scancode = \h0E -> Some(Backspace)
      [] st = Neutral /\ scancode = \h0F -> Some("\t")
      [] st = Neutral /\ scancode = \h01 -> Some(Escape)
      [] OTHER -> None

\* The value of the match of advance. m is self.modifiers as the guards of
\* the printable arms read it: an arm that updates the modifiers returns None
\* and reads no guard.
result(st, m, scancode) ==
    CASE scancode \in ModifierCodes(st) -> None
      [] st = Neutral /\ scancode \in PrintableKeys /\ ~shifted(m) ->
            Some(Unshifted(scancode))
      [] st = Neutral /\ scancode \in PrintableKeys /\ shifted(m) ->
            Some(Shifted(scancode))
      [] st = E0 /\ scancode = \h35 -> Some("/")
      [] st = Neutral /\ scancode \in KeypadKeys -> keypad_result(m, scancode)
      [] st = Neutral /\ scancode = \h39 -> Some(" ")
      [] enter_arm(st) /\ scancode = \h1C -> Some("\n")
      [] st = Neutral /\ scancode = \h0E -> Some(Backspace)
      [] st = Neutral /\ scancode = \h0F -> Some("\t")
      [] st = Neutral /\ scancode = \h01 -> Some(Escape)
      [] OTHER -> None

\* Qwerty::advance(&mut self, scancode) -> Option<char>: the decoder after the
\* call and the value returned.
advance(st, m, scancode) ==
    [state     |-> next_state(st, scancode),
     modifiers |-> next_modifiers(st, m, scancode),
     result    |-> result(st, m, scancode)]

(***************************************************************************)
(* The decoder's operations.                                               *)
(***************************************************************************)
\* One call of advance on the decoder, recorded in calls.
Advance(scancode) ==
    LET r == advance(state, modifiers, scancode)
    IN  /\ state' = r.state
        /\ modifiers' = r.modifiers
        /\ calls' = Append(calls, [state     |-> state,
                                   modifiers |-> modifiers,
                                   scancode  |-> scancode,
                                   result    |-> r.result])

\* The make and break codes of left Shift, CapsLock and NumLock.
LockAndShiftCodes == {\h2A, \hAA, \h3A, \hBA, \h45, \hC5}

\* The keys that produce a character: the printable keys and the keypad.
TypedKeys == PrintableKeys \cup KeypadKeys

\* The keyboard sends a Shift, CapsLock or NumLock make or break code.
PressOrReleaseModifier ==
    \E scancode \in LockAndShiftCodes :
        /\ Len(calls) < MaxFeeds
        /\ Advance(scancode)
        /\ UNCHANGED <<mutexVars, termVars, handler, pc>>

\* The keyboard sends the make code of a typed key. One run types one key,
\* any number of times, between the modifier codes.
TypeKey ==
    \E scancode \in TypedKeys :
        /\ Len(calls) < MaxFeeds
        /\ \A i \in 1 .. Len(calls) :
               calls[i].scancode \in TypedKeys => calls[i].scancode = scancode
        /\ Advance(scancode)
        /\ UNCHANGED <<mutexVars, termVars, handler, pc>>

\* The keyboard sends the make or break code of the left or the right Shift.
PressOrReleaseShift ==
    \E scancode \in {\h2A, \hAA, \h36, \hB6} :
        /\ Len(calls) < MaxFeeds
        /\ Advance(scancode)
        /\ UNCHANGED <<mutexVars, termVars, handler, pc>>

\* One key event given to a decoder: one byte, or the 0xE0 prefix and the byte
\* that follows it.
DecodeKeyEvent ==
    \E scancode \in Byte :
        /\ calls = <<>> \/ (Len(calls) = 1 /\ state = E0)
        /\ Advance(scancode)
        /\ UNCHANGED <<mutexVars, termVars, handler, pc>>

(***************************************************************************)
(* struct Mutex<T> { locked: AtomicBool, value: UnsafeCell<T> }            *)
(***************************************************************************)
\* The ways a MutexGuard goes out of scope in main.rs: the end of the
\* statement that made it as a temporary, the end of its block, a break out
\* of its block.
ExitPaths == {"end of statement", "end of block", "break"}

\* AtomicBool::compare_exchange(current, new, ..): is_ok() and the flag after.
compare_exchange(flag, current, new) ==
    [is_ok |-> flag = current,
     flag  |-> IF flag = current THEN new ELSE flag]

\* The guard the next successful lock() returns: guards are numbered in the
\* order they are made.
NewGuard == Cardinality({i \in 1 .. Len(ops) : ops[i].guard # None /\ ops[i].op = "lock"}) + 1

\* A lock() that waits for the flag instead of aborting.
lock_waiting ==
    /\ panic = None
    /\ Len(ops) < MaxOps
    /\ locked = FALSE
    /\ locked' = TRUE
    /\ guards' = guards \cup {NewGuard}
    /\ ops' = Append(ops, [op |-> "lock", held |-> guards # {},
                           guard |-> Some(NewGuard), exit |-> "none"])
    /\ UNCHANGED <<value, panic, kbdVars, termVars, handler, pc>>

\* A lock() that returns a guard without looking at the flag.
lock_without_check ==
    /\ panic = None
    /\ Len(ops) < MaxOps
    /\ locked' = TRUE
    /\ guards' = guards \cup {NewGuard}
    /\ ops' = Append(ops, [op |-> "lock", held |-> guards # {},
                           guard |-> Some(NewGuard), exit |-> "none"])
    /\ UNCHANGED <<value, panic, kbdVars, termVars, handler, pc>>

\* Mutex::lock(&self) -> MutexGuard: the assert on compare_exchange(false,
\* true), then the guard. A panic stops the kernel: nothing runs after it.
lock ==
    /\ panic = None
    /\ Len(ops) < MaxOps
    /\ LET r == compare_exchange(locked, FALSE, TRUE)
       IN  /\ locked' = r.flag
           /\ IF r.is_ok
              THEN /\ guards' = guards \cup {NewGuard}
                   /\ panic' = panic
                   /\ ops' = Append(ops, [op |-> "lock", held |-> guards # {},
                                          guard |-> Some(NewGuard), exit |-> "none"])
              ELSE /\ guards' = guards
                   /\ panic' = Some("Mutex already locked")
                   /\ ops' = Append(ops, [op |-> "lock", held |-> guards # {},
                                          guard |-> None, exit |-> "none"])
    /\ UNCHANGED <<value, kbdVars, termVars, handler, pc>>

\* A drop that leaves the flag as it is.
drop_without_release ==
    \E g \in guards, exit \in ExitPaths :
        /\ panic = None
        /\ Len(ops) < MaxOps
        /\ guards' = guards \ {g}
        /\ ops' = Append(ops, [op |-> "drop", held |-> TRUE,
                               guard |-> Some(g), exit |-> exit])
        /\ UNCHANGED <<locked, value, panic, kbdVars, termVars, handler, pc>>

\* <MutexGuard as Drop>::drop: self.mutex.locked.store(false), run when the
\* guard goes out of scope on any path.
drop ==
    \E g \in guards, exit \in ExitPaths :
        /\ panic = None
        /\ Len(ops) < MaxOps
        /\ locked' = FALSE
        /\ guards' = guards \ {g}
        /\ ops' = Append(ops, [op |-> "drop", held |-> TRUE,
                               guard |-> Some(g), exit |-> exit])
        /\ UNCHANGED <<value, panic, kbdVars, termVars, handler, pc>>

\* <MutexGuard as DerefMut>::deref_mut: the holder of a guard writes the
\* protected value.
deref_mut ==
    \E g \in guards, v \in 0 .. MaxValue :
        /\ panic = None
        /\ v # value
        /\ value' = v
        /\ UNCHANGED <<locked, guards, panic, ops, kbdVars, termVars, handler, pc>>

(***************************************************************************)
(* mod vga_chars: the glyph table.                                         *)
(***************************************************************************)
\* The character U+25A0, the black square putchar asks the table for.
BlackSquare == "U+25A0"

\* The glyph of the black square in the hardware font.
BlackSquareGlyph == \hFE

\* A character the glyph table does not hold: U+00E9.
EAcute == "U+00E9"

\* The printable ASCII characters and their glyphs: the hardware font keeps
\* ASCII in place.
AsciiGlyphs ==
    {
     <<" ", \h20>>, <<"!", \h21>>, <<"\"", \h22>>, <<"#", \h23>>, <<"$", \h24>>,
     <<"%", \h25>>, <<"&", \h26>>, <<"'", \h27>>, <<"(", \h28>>, <<")", \h29>>,
     <<"*", \h2A>>, <<"+", \h2B>>, <<",", \h2C>>, <<"-", \h2D>>, <<".", \h2E>>,
     <<"/", \h2F>>, <<"0", \h30>>, <<"1", \h31>>, <<"2", \h32>>, <<"3", \h33>>,
     <<"4", \h34>>, <<"5", \h35>>, <<"6", \h36>>, <<"7", \h37>>, <<"8", \h38>>,
     <<"9", \h39>>, <<":", \h3A>>, <<";", \h3B>>, <<"<", \h3C>>, <<"=", \h3D>>,
     <<">", \h3E>>, <<"?", \h3F>>, <<"@", \h40>>, <<"A", \h41>>, <<"B", \h42>>,
     <<"C", \h43>>, <<"D", \h44>>, <<"E", \h45>>, <<"F", \h46>>, <<"G", \h47>>,
     <<"H", \h48>>, <<"I", \h49>>, <<"J", \h4A>>, <<"K", \h4B>>, <<"L", \h4C>>,
     <<"M", \h4D>>, <<"N", \h4E>>, <<"O", \h4F>>, <<"P", \h50>>, <<"Q", \h51>>,
     <<"R", \h52>>, <<"S", \h53>>, <<"T", \h54>>, <<"U", \h55>>, <<"V", \h56>>,
     <<"W", \h57>>, <<"X", \h58>>, <<"Y", \h59>>, <<"Z", \h5A>>, <<"[", \h5B>>,
     <<"\\", \h5C>>, <<"]", \h5D>>, <<"^", \h5E>>, <<"_", \h5F>>, <<Backtick, \h60>>,
     <<"a", \h61>>, <<"b", \h62>>, <<"c", \h63>>, <<"d", \h64>>, <<"e", \h65>>,
     <<"f", \h66>>, <<"g", \h67>>, <<"h", \h68>>, <<"i", \h69>>, <<"j", \h6A>>,
     <<"k", \h6B>>, <<"l", \h6C>>, <<"m", \h6D>>, <<"n", \h6E>>, <<"o", \h6F>>,
     <<"p", \h70>>, <<"q", \h71>>, <<"r", \h72>>, <<"s", \h73>>, <<"t", \h74>>,
     <<"u", \h75>>, <<"v", \h76>>, <<"w", \h77>>, <<"x", \h78>>, <<"y", \h79>>,
     <<"z", \h7A>>, <<"{", \h7B>>, <<"|", \h7C>>, <<"}", \h7D>>, <<"~", \h7E>>
    }

AsciiGlyph == [c \in {row[1] : row \in AsciiGlyphs} |-> (CHOOSE row \in AsciiGlyphs : row[1] = c)[2]]

\* vga_chars::from_char(c) -> Option<u8>.
from_char(c) ==
    IF c \in DOMAIN AsciiGlyph THEN Some(AsciiGlyph[c])
    ELSE IF c = BlackSquare THEN Some(BlackSquareGlyph)
    ELSE None

(***************************************************************************)
(* Port I/O and the devices behind the ports.                              *)
(***************************************************************************)
\* The CRT controller registers the driver uses: cursor start, cursor end,
\* cursor location high, cursor location low. The index port is 0x3D4, the
\* data port 0x3D5.
CrtcRegisters == {\h0A, \h0B, \h0E, \h0F}

\* a | b on bytes.
RECURSIVE bit_or(_, _)
bit_or(a, b) ==
    IF a = 0 THEN b
    ELSE IF b = 0 THEN a
    ELSE (IF a % 2 = 1 \/ b % 2 = 1 THEN 1 ELSE 0) + 2 * bit_or(a \div 2, b \div 2)

\* a & mask for a mask that keeps the bits from bit upwards: 0xC0, 0xE0.
high_bits(a, bit) == (a \div bit) * bit

\* outb(port, val): the access, and what the CRT controller does with it.
outb(t, port, val) ==
    LET logged == [t EXCEPT !.io = Append(@, [op |-> "outb", port |-> port, val |-> val])]
    IN  IF port = \h3D4
        THEN [logged EXCEPT !.crtc.index = val]
        ELSE IF port = \h3D5 /\ t.crtc.index \in CrtcRegisters
        THEN [logged EXCEPT !.crtc.regs[t.crtc.index] = val]
        ELSE logged

\* The byte inb(0x3D5) reads: the register the index port selects.
crtc_data(t) == IF t.crtc.index \in CrtcRegisters THEN t.crtc.regs[t.crtc.index] ELSE 0

\* inb(port) that read val: the access.
inb(t, port, val) == [t EXCEPT !.io = Append(@, [op |-> "inb", port |-> port, val |-> val])]

\* outw(port, val): the access.
outw(t, port, val) == [t EXCEPT !.io = Append(@, [op |-> "outw", port |-> port, val |-> val])]

(***************************************************************************)
(* struct VgaBuffer: the terminal driver.                                  *)
(***************************************************************************)
VGA_BUFFER_WIDTH == 80

VGA_BUFFER_HEIGHT == 25

TAB_SIZE == 4

\* The length of VgaBuffer::cmdline, a [u8; 128].
CMDLINE_CAPACITY == 128

\* White on black, the colour VgaBuffer::new() starts with.
WHITE_ON_BLACK == \h0F

\* The cells of the buffer: buffer_mut() is a slice of WIDTH * HEIGHT u16.
Cells == 0 .. (VGA_BUFFER_WIDTH * VGA_BUFFER_HEIGHT - 1)

\* (color as u16) << 8 | (byte as u16)
cell(color, byte) == color * 256 + byte

\* The driver as one value: the fields of VgaBuffer, the memory and the
\* device it drives, the cells written and the ports accessed by the
\* operation that is running, and the panic that stopped it.
Self ==
    [cursor_x      |-> cursor_x,
     cursor_y      |-> cursor_y,
     current_color |-> current_color,
     buffer        |-> buffer,
     crtc          |-> crtc,
     written       |-> {},
     io            |-> <<>>,
     panic         |-> None]

\* assert!(cond) and unreachable!(): the panic message.
panicked(t, message) == [t EXCEPT !.panic = Some(message)]

\* VgaBuffer::clear
terminal_clear(t) ==
    [t EXCEPT !.buffer = [i \in Cells |-> cell(t.current_color, \h20)]]

\* The index write_byte stores at.
cell_index(x, y) == x + y * VGA_BUFFER_WIDTH

\* A write_byte without the assertion on x.
write_byte_without_assert_x(t, x, y, byte, color) ==
    IF ~(y < VGA_BUFFER_HEIGHT)
    THEN panicked(t, "assertion failed: y < VGA_BUFFER_HEIGHT")
    ELSE IF cell_index(x, y) \notin Cells
    THEN panicked(t, "index out of bounds")
    ELSE [t EXCEPT !.buffer[cell_index(x, y)] = cell(color, byte),
                   !.written = @ \cup {cell_index(x, y)}]

\* VgaBuffer::write_byte
write_byte(t, x, y, byte, color) ==
    IF ~(x < VGA_BUFFER_WIDTH)
    THEN panicked(t, "assertion failed: x < VGA_BUFFER_WIDTH")
    ELSE IF ~(y < VGA_BUFFER_HEIGHT)
    THEN panicked(t, "assertion failed: y < VGA_BUFFER_HEIGHT")
    ELSE IF cell_index(x, y) \notin Cells
    THEN panicked(t, "index out of bounds")
    ELSE [t EXCEPT !.buffer[cell_index(x, y)] = cell(color, byte),
                   !.written = @ \cup {cell_index(x, y)}]

\* A write_at that writes white on black whatever the current colour is.
write_at_white_on_black(t, x, y, byte) == write_byte(t, x, y, byte, WHITE_ON_BLACK)

\* VgaBuffer::write_at
write_at(t, x, y, byte) == write_byte(t, x, y, byte, t.current_color)

\* The scroll without the fill of the last row.
scrolled_without_fill(buf, color) ==
    [i \in Cells |-> IF i + VGA_BUFFER_WIDTH \in Cells THEN buf[i + VGA_BUFFER_WIDTH] ELSE buf[i]]

\* copy_within(VGA_BUFFER_WIDTH.., 0), then the fill of the last row with
\* color << 8.
scrolled(buf, color) ==
    [i \in Cells |->
        IF i < VGA_BUFFER_WIDTH * (VGA_BUFFER_HEIGHT - 1)
        THEN buf[i + VGA_BUFFER_WIDTH]
        ELSE cell(color, 0)]

\* A newline that scrolls and leaves cursor_y at VGA_BUFFER_HEIGHT.
newline_without_step_back(t) ==
    LET y == t.cursor_y + 1
    IN  IF y = VGA_BUFFER_HEIGHT
        THEN [t EXCEPT !.cursor_x = 0, !.cursor_y = y,
                       !.buffer = scrolled(t.buffer, t.current_color)]
        ELSE IF y > VGA_BUFFER_HEIGHT
        THEN panicked([t EXCEPT !.cursor_x = 0, !.cursor_y = y],
                      "internal error: entered unreachable code")
        ELSE [t EXCEPT !.cursor_x = 0, !.cursor_y = y]

\* VgaBuffer::newline
newline(t) ==
    LET y == t.cursor_y + 1
    IN  IF y = VGA_BUFFER_HEIGHT
        THEN [t EXCEPT !.cursor_x = 0, !.cursor_y = y - 1,
                       !.buffer = scrolled(t.buffer, t.current_color)]
        ELSE IF y > VGA_BUFFER_HEIGHT
        THEN panicked([t EXCEPT !.cursor_x = 0, !.cursor_y = y],
                      "internal error: entered unreachable code")
        ELSE [t EXCEPT !.cursor_x = 0, !.cursor_y = y]

\* A set_visual_cursor_pos that sends the low byte to register 0x0E and the
\* high byte to register 0x0F.
set_visual_cursor_pos_swapped(t, x, y) ==
    LET pos == y * 80 + x
        low == outb(outb(t, \h3D4, \h0E), \h3D5, pos % 256)
        high == outb(outb(low, \h3D4, \h0F), \h3D5, (pos \div 256) % 256)
    IN  [high EXCEPT !.cursor_x = x, !.cursor_y = y]

\* VgaBuffer::set_visual_cursor_pos
set_visual_cursor_pos(t, x, y) ==
    LET pos == y * 80 + x
        low == outb(outb(t, \h3D4, \h0F), \h3D5, pos % 256)
        high == outb(outb(low, \h3D4, \h0E), \h3D5, (pos \div 256) % 256)
    IN  [high EXCEPT !.cursor_x = x, !.cursor_y = y]

\* usize::next_multiple_of
next_multiple_of(n, rhs) == ((n + rhs - 1) \div rhs) * rhs

\* A tab stop counted from cursor_x instead of cursor_x + 1.
tab_stop_from_cursor(x) == next_multiple_of(x, TAB_SIZE)

\* The '\t' arm of putchar: (self.cursor_x + 1).next_multiple_of(TAB_SIZE).
tab_stop(x) == next_multiple_of(x + 1, TAB_SIZE)

\* A wrap that waits for cursor_x to pass VGA_BUFFER_WIDTH.
wrap_past_width(t) == IF t.cursor_x > VGA_BUFFER_WIDTH THEN newline(t) ELSE t

\* The end of putchar's match: if self.cursor_x >= VGA_BUFFER_WIDTH { newline }.
wrap(t) == IF t.cursor_x >= VGA_BUFFER_WIDTH THEN newline(t) ELSE t

\* The arms of putchar's match.
putchar_arm(t, c) ==
    CASE c = "\n" -> newline(t)
      [] c = "\r" -> [t EXCEPT !.cursor_x = 0]
      [] c = "\t" -> [t EXCEPT !.cursor_x = tab_stop(t.cursor_x)]
      [] OTHER ->
            LET REPLACEMENT_CHARACTER == from_char(BlackSquare)[1]
                b == IF from_char(c) = None THEN REPLACEMENT_CHARACTER ELSE from_char(c)[1]
                wrote == write_at(t, t.cursor_x, t.cursor_y, b)
            IN  IF wrote.panic # None THEN wrote
                ELSE [wrote EXCEPT !.cursor_x = @ + 1]

\* VgaBuffer::putchar. A panic stops it where it happens.
putchar(t, c) ==
    LET matched == putchar_arm(t, c)
        wrapped == IF matched.panic # None THEN matched ELSE wrap(matched)
    IN  IF wrapped.panic # None THEN wrapped
        ELSE set_visual_cursor_pos(wrapped, wrapped.cursor_x, wrapped.cursor_y)

\* <VgaBuffer as core::fmt::Write>::write_str
RECURSIVE write_str(_, _)
write_str(t, s) ==
    IF s = <<>> \/ t.panic # None THEN t
    ELSE write_str(putchar(t, Head(s)), Tail(s))

\* VgaBuffer::set_color
set_color(t, color) == [t EXCEPT !.current_color = color]

\* VgaBuffer::set_cursor_shape
set_cursor_shape(t, cursor_start, cursor_end) ==
    LET s1 == outb(t, \h3D4, \h0A)
        r1 == inb(s1, \h3D5, crtc_data(s1))
        s2 == outb(r1, \h3D5, bit_or(high_bits(crtc_data(s1), \h40), cursor_start))
        s3 == outb(s2, \h3D4, \h0B)
        r2 == inb(s3, \h3D5, crtc_data(s3))
    IN  outb(r2, \h3D5, bit_or(high_bits(crtc_data(s3), \h20), cursor_end))

\* A get_kb_data that reads the data port whatever the status is.
get_kb_data_always_reads(t, status, data) ==
    [t |-> inb(inb(t, \h64, status), \h60, data), ret |-> Some(data)]

\* VgaBuffer::get_kb_data, with the bytes the two ports hold: the accesses
\* and the value returned.
get_kb_data(t, status, data) ==
    LET s1 == inb(t, \h64, status)
    IN  IF status % 2 = 0
        THEN [t |-> s1, ret |-> None]
        ELSE [t |-> inb(s1, \h60, data), ret |-> Some(data)]

\* char::is_whitespace on a byte of the line: tab, line feed, vertical tab,
\* form feed, carriage return, space.
is_whitespace(byte) == byte \in (\h09 .. \h0D) \cup {\h20}

\* A word delete that looks for the last whitespace without skipping the
\* whitespace the line ends with.
backspace_word_without_skip(line, len) ==
    LET spaces == {p \in 1 .. len : is_whitespace(line[p])}
    IN  IF spaces = {} THEN 0 ELSE CHOOSE p \in spaces : \A q \in spaces : q <= p

\* The length after Backspace with Control held: char_indices().rev(),
\* skip_while whitespace, find whitespace; index + len_utf8 of what is found,
\* or 0. Positions count from 1, so the character at index i is at i + 1.
backspace_word(line, len) ==
    LET words == {p \in 1 .. len : ~is_whitespace(line[p])}
        last_word == CHOOSE p \in words : \A q \in words : q <= p
        spaces == IF words = {} THEN {}
                  ELSE {p \in 1 .. last_word : is_whitespace(line[p])}
    IN  IF spaces = {} THEN 0 ELSE CHOOSE p \in spaces : \A q \in spaces : q <= p

\* A Backspace that subtracts from the length without looking at the line:
\* the u8 wraps at 0.
backspace_char_unchecked(len) == (len + 255) % 256

\* The length after Backspace without Control: chars().next_back(), then
\* len - len_utf8 of the last character, or 0.
backspace_char(len) == IF len > 0 THEN len - 1 ELSE 0

\* The match of get_line on the character c, with the line held and the
\* decoder's modifiers: the length left, the value returned, the panic. The
\* line holds ASCII, one byte for each character.
get_line_match(line, len, c, m) ==
    IF c = "\n" \/ c = Backspace
    THEN IF len > Len(line)
         THEN [cmdline_len |-> len, ret |-> None,
               panic |-> Some("range end index out of range")]
         ELSE IF c = "\n"
         THEN [cmdline_len |-> 0, ret |-> Some(SubSeq(line, 1, len)), panic |-> None]
         ELSE IF control(m)
         THEN [cmdline_len |-> backspace_word(line, len), ret |-> None, panic |-> None]
         ELSE [cmdline_len |-> backspace_char(len), ret |-> None, panic |-> None]
    ELSE IF len > Len(line)
    THEN [cmdline_len |-> len, ret |-> None,
          panic |-> Some("attempt to subtract with overflow")]
    ELSE [cmdline_len |-> len, ret |-> None, panic |-> Some("not yet implemented")]

(***************************************************************************)
(* The driver's operations.                                                *)
(***************************************************************************)
\* The driver after an operation that left it as t: the fields, the memory,
\* the device, and the record of the operation.
Done(t, op, args, ret) ==
    /\ cursor_x' = t.cursor_x
    /\ cursor_y' = t.cursor_y
    /\ current_color' = t.current_color
    /\ buffer' = t.buffer
    /\ crtc' = t.crtc
    /\ panic' = t.panic
    /\ last' = [op |-> op, args |-> args, ret |-> ret, n |-> last.n + 1,
                written |-> t.written, io |-> t.io]

\* What an operation of the display leaves alone.
DisplayFrame == UNCHANGED <<kbdVars, locked, guards, value, ops, cmdline, cmdline_len, handler, pc>>

Putchar(c) == Done(putchar(Self, c), "putchar", <<c>>, None) /\ DisplayFrame

WriteStr(s) == Done(write_str(Self, s), "write_str", <<s>>, None) /\ DisplayFrame

Clear == Done(terminal_clear(Self), "clear", <<>>, None) /\ DisplayFrame

SetColor(color) == Done(set_color(Self, color), "set_color", <<color>>, None) /\ DisplayFrame

WriteAt(x, y, byte) ==
    Done(write_at(Self, x, y, byte), "write_at", <<x, y, byte>>, None) /\ DisplayFrame

WriteByte(x, y, byte, color) ==
    Done(write_byte(Self, x, y, byte, color), "write_byte", <<x, y, byte, color>>, None)
    /\ DisplayFrame

SetVisualCursorPos(x, y) ==
    Done(set_visual_cursor_pos(Self, x, y), "set_visual_cursor_pos", <<x, y>>, None)
    /\ DisplayFrame

SetCursorShape(cursor_start, cursor_end) ==
    Done(set_cursor_shape(Self, cursor_start, cursor_end), "set_cursor_shape",
         <<cursor_start, cursor_end>>, None)
    /\ DisplayFrame

\* VgaBuffer::get_char, with the bytes the keyboard controller's ports hold.
GetChar(status, data) ==
    LET kb == get_kb_data(Self, status, data)
    IN  /\ IF kb.ret = None
           THEN /\ Done(kb.t, "get_char", <<>>, None)
                /\ UNCHANGED kbdVars
           ELSE /\ Done(kb.t, "get_char", <<>>, advance(state, modifiers, data).result)
                /\ Advance(data)
        /\ UNCHANGED <<locked, guards, value, ops, cmdline, cmdline_len, handler, pc>>

\* VgaBuffer::get_line, with the bytes the keyboard controller's ports hold.
GetLine(status, data) ==
    LET kb == get_kb_data(Self, status, data)
        key == advance(state, modifiers, data)
        matched == get_line_match(cmdline, cmdline_len, key.result[1], key.modifiers)
    IN  /\ IF kb.ret = None
           THEN /\ Done(kb.t, "get_line", <<>>, None)
                /\ UNCHANGED <<kbdVars, cmdline_len>>
           ELSE IF key.result = None
           THEN /\ Done(kb.t, "get_line", <<>>, None)
                /\ Advance(data)
                /\ UNCHANGED cmdline_len
           ELSE /\ Done([kb.t EXCEPT !.panic = matched.panic], "get_line", <<>>, matched.ret)
                /\ Advance(data)
                /\ cmdline_len' = matched.cmdline_len
        /\ UNCHANGED <<locked, guards, value, ops, cmdline, handler, pc>>

(***************************************************************************)
(* fn crash_and_burn: the panic handler.                                   *)
(***************************************************************************)
\* Mutex::lock_unchecked(&self) -> MutexGuard: the guard, made without the
\* compare_exchange and its assert. The lock is taken by force.
lock_unchecked(flag) == [flag |-> TRUE, guard |-> NewGuard, panic |-> None]

\* The text of a panic message: PanicInfo's Display ends with it.
description(message) ==
    CASE message = "Mutex already locked" ->
            <<"M", "u", "t", "e", "x", " ", "a", "l", "r", "e", "a", "d", "y", " ",
              "l", "o", "c", "k", "e", "d">>
      [] message = "assertion failed: x < VGA_BUFFER_WIDTH" ->
            <<"a", "s", "s", "e", "r", "t", "i", "o", "n", " ", "f", "a", "i", "l", "e", "d",
              ":", " ", "x", " ", "<", " ", "V", "G", "A", "_", "B", "U", "F", "F", "E", "R",
              "_", "W", "I", "D", "T", "H">>
      [] message = "assertion failed: y < VGA_BUFFER_HEIGHT" ->
            <<"a", "s", "s", "e", "r", "t", "i", "o", "n", " ", "f", "a", "i", "l", "e", "d",
              ":", " ", "y", " ", "<", " ", "V", "G", "A", "_", "B", "U", "F", "F", "E", "R",
              "_", "H", "E", "I", "G", "H", "T">>
      [] OTHER -> <<"p", "a", "n", "i", "c">>

\* "\nPress ESC to shutdown"
PRESS_ESC ==
    <<"\n", "P", "r", "e", "s", "s", " ", "E", "S", "C", " ", "t", "o", " ",
      "s", "h", "u", "t", "d", "o", "w", "n">>

\* The scancode the handler waits for: the make code of Escape.
ESCAPE_MAKE == \h01

\* The status bytes the keyboard controller shows: output buffer empty,
\* output buffer full.
StatusBytes == {\h1C, \h1D}

\* The start of crash_and_burn: lock_unchecked, then write_fmt of the
\* description and the prompt.
crash_and_burn_report ==
    /\ panic # None
    /\ handler = "idle"
    /\ LET acquired == lock_unchecked(locked)
           printed == write_str(Self, description(panic[1]) \o PRESS_ESC)
       IN  /\ locked' = acquired.flag
           /\ guards' = guards \cup {acquired.guard}
           /\ ops' = Append(ops, [op |-> "lock_unchecked", held |-> guards # {},
                                  guard |-> Some(acquired.guard), exit |-> "none"])
           /\ cursor_x' = printed.cursor_x
           /\ cursor_y' = printed.cursor_y
           /\ current_color' = printed.current_color
           /\ buffer' = printed.buffer
           /\ crtc' = printed.crtc
           /\ last' = [op |-> "crash_and_burn", args |-> <<panic[1]>>, ret |-> None,
                       n |-> last.n + 1, written |-> printed.written, io |-> printed.io]
           /\ handler' = IF printed.panic = None THEN "waiting" ELSE "panicked"
           /\ pc' = pc
    /\ UNCHANGED <<kbdVars, value, panic, cmdline, cmdline_len>>

\* A wait of crash_and_burn that ends on any byte the keyboard sends.
crash_and_burn_poll_any_key ==
    \E status \in StatusBytes, data \in {ESCAPE_MAKE, \h81, \h1C} :
        /\ handler = "waiting"
        /\ LET kb == get_kb_data(Self, status, data)
               leave == kb.ret # None
               t == IF leave THEN outw(kb.t, \h604, \h2000) ELSE kb.t
           IN  /\ last' = [op |-> "crash_and_burn", args |-> <<panic[1]>>, ret |-> kb.ret,
                           n |-> last.n, written |-> {}, io |-> t.io]
               /\ handler' = IF leave THEN "off" ELSE "waiting"
               /\ pc' = pc
        /\ UNCHANGED <<kbdVars, mutexVars, cursor_x, cursor_y, current_color, buffer,
                       cmdline, cmdline_len, crtc>>

\* One turn of crash_and_burn's wait: get_kb_data, and qemu_shutdown once it
\* returns Some(0x01).
crash_and_burn_poll ==
    \E status \in StatusBytes, data \in {ESCAPE_MAKE, \h81, \h1C} :
        /\ handler = "waiting"
        /\ LET kb == get_kb_data(Self, status, data)
               leave == kb.ret = Some(ESCAPE_MAKE)
               t == IF leave THEN outw(kb.t, \h604, \h2000) ELSE kb.t
           IN  /\ last' = [op |-> "crash_and_burn", args |-> <<panic[1]>>, ret |-> kb.ret,
                           n |-> last.n, written |-> {}, io |-> t.io]
               /\ handler' = IF leave THEN "off" ELSE "waiting"
               /\ pc' = pc
        /\ UNCHANGED <<kbdVars, mutexVars, cursor_x, cursor_y, current_color, buffer,
                       cmdline, cmdline_len, crtc>>

(***************************************************************************)
(* The specifications.                                                     *)
(***************************************************************************)
\* Mutex::new(value): unlocked, no guard.
MutexNew ==
    /\ locked = FALSE
    /\ guards = {}
    /\ value = 0
    /\ panic = None
    /\ ops = <<>>

\* VgaBuffer::new(), the memory and the device before the driver touches
\* them, and crash_and_burn not entered.
ZeroLine == [i \in 1 .. CMDLINE_CAPACITY |-> 0]

\* The screen the firmware leaves: spaces, light grey on black.
BootScreen == [i \in Cells |-> cell(\h07, \h20)]

CrtcReset == [index |-> 0, regs |-> [r \in CrtcRegisters |-> 0]]

NoOperation ==
    [op |-> "new", args |-> <<>>, ret |-> None, n |-> 0, written |-> {}, io |-> <<>>]

TerminalNew ==
    /\ cursor_x = 0
    /\ cursor_y = 0
    /\ current_color = WHITE_ON_BLACK
    /\ buffer = BootScreen
    /\ cmdline = ZeroLine
    /\ cmdline_len = 0
    /\ crtc = CrtcReset
    /\ last = NoOperation
    /\ handler = "idle"
    /\ pc = "main"

\* Qwerty::new(), Mutex::new() and VgaBuffer::new().
Init ==
    /\ state = Neutral
    /\ modifiers = EMPTY
    /\ calls = <<>>
    /\ MutexNew
    /\ TerminalNew

\* The decoder fed by the keyboard, from Qwerty::new().
Next == PressOrReleaseModifier \/ TypeKey

Spec == Init /\ [][Next]_vars

\* The decoder fed by the two Shift keys and one typed key, CapsLock off.
SpecShift == Init /\ [][PressOrReleaseShift \/ TypeKey]_vars

\* advance as a function: a decoder in any state, holding any value a
\* Modifiers can take, given one key event.
InitAdvance ==
    /\ state \in State
    /\ modifiers \in ModifierValues
    /\ calls = <<>>
    /\ MutexNew
    /\ TerminalNew

NextAdvance == DecodeKeyEvent

SpecAdvance == InitAdvance /\ [][NextAdvance]_vars

\* The Mutex and its guards.
NextMutex == lock \/ drop \/ deref_mut

SpecMutex == Init /\ [][NextMutex]_vars

(***************************************************************************)
(* The terminal driver's specifications.                                   *)
(***************************************************************************)
\* The columns, the rows and the colours a run starts the cursor with.
CursorColumns == {0, 1, 3, 4, 75, 76, 77, 78, 79}

CursorRows == {0, 1, 23, 24}

Colors == {WHITE_ON_BLACK, \h4E}

\* A screen with a different letter in each row, upper case in the even
\* columns and lower case in the odd ones, in two colours.
LetteredScreen ==
    [i \in Cells |->
        LET row == i \div VGA_BUFFER_WIDTH
            col == i % VGA_BUFFER_WIDTH
        IN  IF col % 2 = 0 THEN cell(\h1F, \h41 + row) ELSE cell(\h2A, \h61 + row)]

\* The characters given to putchar: letters, a space, the three control
\* characters, the black square, a character without a glyph.
PutChars == {"a", "~", " ", "\n", "\r", "\t", BlackSquare, EAcute}

\* The scancodes the keyboard sends: a, Enter, Backspace, left Shift, left
\* Control, Escape, the prefix.
KeyBytes == {\h1E, \h1C, \h0E, \h2A, \h1D, \h01, \hE0}

\* A driver with the cursor anywhere on the screen, given one operation.
InitTerminal ==
    /\ state = Neutral
    /\ modifiers = EMPTY
    /\ calls = <<>>
    /\ MutexNew
    /\ cursor_x \in CursorColumns
    /\ cursor_y \in CursorRows
    /\ current_color \in Colors
    /\ buffer \in {BootScreen, LetteredScreen}
    /\ cmdline = ZeroLine
    /\ cmdline_len = 0
    /\ crtc = CrtcReset
    /\ last = NoOperation
    /\ handler = "idle"
    /\ pc = "main"

\* No operation made yet, nothing panicked.
FirstOperation == panic = None /\ last.n = 0

\* One operation of the driver, with its arguments.
NextTerminal ==
    \/ \E c \in PutChars : FirstOperation /\ Putchar(c)
    \/ \E s \in {<<>>, <<"o", "k">>, <<"a", "\n">>, <<"\t", "\t">>} :
          FirstOperation /\ WriteStr(s)
    \/ FirstOperation /\ Clear
    \/ \E color \in Colors : FirstOperation /\ SetColor(color)
    \/ \E x \in {0, 79, 80}, y \in {0, 24, 25}, byte \in {\h00, \h41} :
          FirstOperation /\ WriteAt(x, y, byte)
    \/ \E x \in {0, 79, 80}, y \in {0, 24, 25}, byte \in {\h00, \h41}, color \in Colors :
          FirstOperation /\ WriteByte(x, y, byte, color)
    \/ \E x \in {0, 79, 80}, y \in {0, 24, 25} :
          FirstOperation /\ SetVisualCursorPos(x, y)
    \/ \E shape \in {<<0, 16>>, <<14, 15>>} :
          FirstOperation /\ SetCursorShape(shape[1], shape[2])
    \/ \E status \in StatusBytes, data \in KeyBytes :
          FirstOperation /\ GetChar(status, data)
    \/ \E status \in StatusBytes, data \in KeyBytes :
          FirstOperation /\ GetLine(status, data)

SpecTerminal == InitTerminal /\ [][NextTerminal]_vars

\* The cursor in the first row of a lettered screen; VGA_BUFFER_HEIGHT
\* newlines, then any characters.
InitScroll ==
    /\ state = Neutral
    /\ modifiers = EMPTY
    /\ calls = <<>>
    /\ MutexNew
    /\ cursor_x \in CursorColumns
    /\ cursor_y = 0
    /\ current_color \in Colors
    /\ buffer = LetteredScreen
    /\ cmdline = ZeroLine
    /\ cmdline_len = 0
    /\ crtc = CrtcReset
    /\ last = NoOperation
    /\ handler = "idle"
    /\ pc = "main"

PutNewline == panic = None /\ last.n < VGA_BUFFER_HEIGHT /\ Putchar("\n")

PutAfterScroll ==
    \E c \in PutChars :
        /\ panic = None
        /\ last.n >= VGA_BUFFER_HEIGHT
        /\ last.n < VGA_BUFFER_HEIGHT + MaxAfterScroll
        /\ Putchar(c)

SpecScroll == InitScroll /\ [][PutNewline \/ PutAfterScroll]_vars

\* The output of a driver made by VgaBuffer::new(): putchar, write_str of
\* 24 newlines, of 79 letters and of two tabs, clear and set_color.
NextPrint ==
    \/ \E c \in PutChars : panic = None /\ last.n < MaxPrints /\ Putchar(c)
    \/ \E s \in {[i \in 1 .. 24 |-> "\n"], [i \in 1 .. 79 |-> "a"], <<"\t", "\t">>} :
          panic = None /\ last.n < MaxPrints /\ WriteStr(s)
    \/ panic = None /\ last.n < MaxPrints /\ Clear
    \/ \E color \in Colors : panic = None /\ last.n < MaxPrints /\ SetColor(color)

SpecPrint == Init /\ [][NextPrint]_vars

\* The line input of a driver made by VgaBuffer::new().
PollLine ==
    \E status \in StatusBytes, data \in KeyBytes :
        /\ panic = None
        /\ last.n < MaxPolls
        /\ GetLine(status, data)

SpecGetLine == Init /\ [][PollLine]_vars

\* A line of words: two letters, two spaces, two letters, one space, again
\* and again.
WordsLine ==
    [i \in 1 .. CMDLINE_CAPACITY |-> IF i % 7 \in {0, 3, 4} THEN \h20 ELSE \h61 + (i % 3)]

\* get_line as a function: a driver holding a line of any length, with or
\* without Control held, given bytes of the keyboard.
InitGetLineAny ==
    /\ state = Neutral
    /\ modifiers \in {EMPTY, set_left_control(EMPTY), set_right_control(EMPTY),
                       set_left_shift(EMPTY)}
    /\ calls = <<>>
    /\ MutexNew
    /\ cursor_x = 0
    /\ cursor_y = 0
    /\ current_color = WHITE_ON_BLACK
    /\ buffer = BootScreen
    /\ cmdline \in {ZeroLine, WordsLine}
    /\ cmdline_len \in {0, 1, 2, 3, 4, 5, 7, 127, 128}
    /\ crtc = CrtcReset
    /\ last = NoOperation
    /\ handler = "idle"
    /\ pc = "main"

SpecGetLineAny == InitGetLineAny /\ [][PollLine]_vars

\* The kernel's use of the terminal: lock, operations through the guard,
\* drop; and crash_and_burn once something has panicked.
KernelWriteAt ==
    \E x \in {27, 80}, y \in {0, 25} :
        /\ panic = None
        /\ guards # {}
        /\ last.n < MaxKernelOps
        /\ WriteAt(x, y, \h34)

KernelPutchar ==
    \E c \in {"4", "\n"} :
        /\ panic = None
        /\ guards # {}
        /\ last.n < MaxKernelOps
        /\ Putchar(c)

NextPanic ==
    \/ lock
    \/ drop
    \/ KernelWriteAt
    \/ KernelPutchar
    \/ crash_and_burn_report
    \/ crash_and_burn_poll

SpecPanic == Init /\ [][NextPanic]_vars

(***************************************************************************)
(* fn main, fn funny_42, fn repl, fn print_stack: the kernel's use of the  *)
(* terminal behind TERMINAL, a Mutex.                                      *)
(***************************************************************************)
\* Terminal::refresh_cmdline(&mut self, prompt): a method of the driver,
\* called through a guard; it draws the line being edited and takes no lock.
refresh_cmdline(t, prompt) == t

\* The steps of main, each named by the function and the line it stands on:
\* what the step does, on what, and the steps that can follow it.
\*   lock     TERMINAL.lock(), the guard bound to `lock` or a temporary
\*   call     a method of the driver called through the guard
\*   drop     the guard goes out of scope: a temporary at the end of its
\*            statement or of the condition of its if, `lock` at the end of
\*            its block or at the break out of it
\*   if_some  a branch on the value the last call returned: Some, None
\*   goto     a branch on what the banner text or the line typed holds
\*   end      qemu_reboot or qemu_shutdown: the kernel does not go on
\* print_stack:111 is each printk! of print_stack.
Program ==
    LET steps ==
          {<<"main", "goto", "funny_42()", <<"funny_42:190">>>>,
           <<"funny_42:190", "lock", "lock", <<"funny_42:191">>>>,
           <<"funny_42:191", "call", "clear", <<"funny_42:192">>>>,
           <<"funny_42:192", "call", "set_cursor_shape", <<"funny_42:193">>>>,
           <<"funny_42:193", "call", "set_visual_cursor_pos", <<"funny_42:194">>>>,
           <<"funny_42:194", "drop", "lock", <<"funny_42:201">>>>,
           <<"funny_42:201", "goto", "for c in ASCII_42", <<"funny_42:208", "funny_42:212">>>>,
           <<"funny_42:208", "lock", "temporary", <<"funny_42:208 set_color">>>>,
           <<"funny_42:208 set_color", "call", "set_color", <<"funny_42:208;">>>>,
           <<"funny_42:208;", "drop", "temporary", <<"funny_42:209">>>>,
           <<"funny_42:209", "lock", "temporary", <<"funny_42:209 write_at">>>>,
           <<"funny_42:209 write_at", "call", "write_at", <<"funny_42:209;">>>>,
           <<"funny_42:209;", "drop", "temporary", <<"funny_42:201">>>>,
           <<"funny_42:212", "lock", "temporary", <<"funny_42:212 get_char">>>>,
           <<"funny_42:212 get_char", "call", "get_char", <<"funny_42:212;">>>>,
           <<"funny_42:212;", "drop", "temporary", <<"funny_42:212 if">>>>,
           <<"funny_42:212 if", "if_some", "is_some()", <<"main:51", "funny_42:201">>>>,
           <<"main:51", "lock", "temporary", <<"main:51 clear">>>>,
           <<"main:51 clear", "call", "clear", <<"main:51;">>>>,
           <<"main:51;", "drop", "temporary", <<"repl:60">>>>,
           <<"repl:60", "lock", "lock", <<"repl:62">>>>,
           <<"repl:62", "call", "refresh_cmdline", <<"repl:65">>>>,
           <<"repl:65", "call", "get_line", <<"repl:65 if">>>>,
           <<"repl:65 if", "if_some", "Some(line)", <<"repl:69", "repl:65">>>>,
           <<"repl:69", "drop", "lock", <<"repl:70">>>>,
           <<"repl:70", "lock", "temporary", <<"repl:70 write_fmt">>>>,
           <<"repl:70 write_fmt", "call", "write_fmt", <<"repl:70;">>>>,
           <<"repl:70;", "drop", "temporary", <<"repl:73">>>>,
           <<"repl:73", "goto", "match words.next()",
             <<"repl:74", "repl:76", "repl:77", "repl:79", "repl:85", "repl:97", "repl:60">>>>,
           <<"repl:74", "end", "qemu_reboot, qemu_shutdown", <<>>>>,
           <<"repl:76", "goto", "hlt", <<"repl:60">>>>,
           <<"repl:77", "goto", "print_stack()", <<"print_stack:111">>>>,
           <<"print_stack:111", "lock", "temporary", <<"print_stack:111 write_fmt">>>>,
           <<"print_stack:111 write_fmt", "call", "write_fmt", <<"print_stack:111;">>>>,
           <<"print_stack:111;", "drop", "temporary", <<"print_stack:119">>>>,
           <<"print_stack:119", "goto", "while esp < STACK_END",
             <<"print_stack:111", "repl:60">>>>,
           <<"repl:79", "goto", "for w in words", <<"repl:80", "repl:82">>>>,
           <<"repl:80", "lock", "temporary", <<"repl:80 write_fmt">>>>,
           <<"repl:80 write_fmt", "call", "write_fmt", <<"repl:80;">>>>,
           <<"repl:80;", "drop", "temporary", <<"repl:79">>>>,
           <<"repl:82", "lock", "temporary", <<"repl:82 write_fmt">>>>,
           <<"repl:82 write_fmt", "call", "write_fmt", <<"repl:82;">>>>,
           <<"repl:82;", "drop", "temporary", <<"repl:60">>>>,
           <<"repl:85", "goto", "u8::from_str_radix", <<"repl:89", "repl:93">>>>,
           <<"repl:89", "lock", "temporary", <<"repl:89 write_fmt">>>>,
           <<"repl:89 write_fmt", "call", "write_fmt", <<"repl:89;">>>>,
           <<"repl:89;", "drop", "temporary", <<"repl:60">>>>,
           <<"repl:93", "lock", "temporary", <<"repl:93 set_color">>>>,
           <<"repl:93 set_color", "call", "set_color", <<"repl:93;">>>>,
           <<"repl:93;", "drop", "temporary", <<"repl:94">>>>,
           <<"repl:94", "lock", "temporary", <<"repl:94 refresh_cmdline">>>>,
           <<"repl:94 refresh_cmdline", "call", "refresh_cmdline", <<"repl:94;">>>>,
           <<"repl:94;", "drop", "temporary", <<"repl:60">>>>,
           <<"repl:97", "lock", "temporary", <<"repl:97 write_fmt">>>>,
           <<"repl:97 write_fmt", "call", "write_fmt", <<"repl:97;">>>>,
           <<"repl:97;", "drop", "temporary", <<"repl:60">>>>}
    IN  [l \in {row[1] : row \in steps} |->
            LET row == CHOOSE r \in steps : r[1] = l
            IN  [do |-> row[2], on |-> row[3], to |-> row[4]]]

\* TERMINAL.lock() at the step main stands on: Mutex::lock, the assert on
\* compare_exchange(false, true), then the guard.
KernelLock ==
    /\ panic = None
    /\ Program[pc].do = "lock"
    /\ LET r == compare_exchange(locked, FALSE, TRUE)
       IN  /\ locked' = r.flag
           /\ guards' = IF r.is_ok THEN guards \cup {Program[pc].on} ELSE guards
           /\ panic' = IF r.is_ok THEN panic ELSE Some("Mutex already locked")
           /\ pc' = IF r.is_ok THEN Program[pc].to[1] ELSE pc
    /\ UNCHANGED <<value, ops, kbdVars, termVars, handler>>

\* Temporaries that live to the end of the kernel: the guard of a statement
\* is not dropped at the end of the statement.
KernelDrop_temporaries_kept ==
    /\ panic = None
    /\ Program[pc].do = "drop"
    /\ Program[pc].on \in guards
    /\ locked' = IF Program[pc].on = "temporary" THEN locked ELSE FALSE
    /\ guards' = IF Program[pc].on = "temporary" THEN guards ELSE guards \ {Program[pc].on}
    /\ pc' = Program[pc].to[1]
    /\ UNCHANGED <<value, panic, ops, kbdVars, termVars, handler>>

\* The guard made at an earlier step goes out of scope:
\* <MutexGuard as Drop>::drop stores false in locked.
KernelDrop ==
    /\ panic = None
    /\ Program[pc].do = "drop"
    /\ Program[pc].on \in guards
    /\ locked' = FALSE
    /\ guards' = guards \ {Program[pc].on}
    /\ pc' = Program[pc].to[1]
    /\ UNCHANGED <<value, panic, ops, kbdVars, termVars, handler>>

\* A method of the driver called through the guard: the colour, the text,
\* and the bytes the keyboard controller's ports hold are the inputs. The
\* banner writes the glyph '4' at column 27 of row 0; get_char and get_line
\* give the byte read to the decoder.
KernelCall ==
    \E color \in Colors, s \in {<<"\n">>, <<"4", "2", " ">>},
       status \in StatusBytes, data \in {\h1C, \h1E} :
        LET call == Program[pc].on
            kb == get_kb_data(Self, status, data)
            key == advance(state, modifiers, data)
            decoded == call \in {"get_char", "get_line"} /\ kb.ret # None
            matched == get_line_match(cmdline, cmdline_len, key.result[1], key.modifiers)
            edited == call = "get_line" /\ decoded /\ key.result # None
            t == CASE call = "clear" -> terminal_clear(Self)
                   [] call = "set_cursor_shape" -> set_cursor_shape(Self, 0, 16)
                   [] call = "set_visual_cursor_pos" -> set_visual_cursor_pos(Self, 0, 0)
                   [] call = "set_color" -> set_color(Self, color)
                   [] call = "write_at" -> write_at(Self, 27, 0, \h34)
                   [] call = "write_fmt" -> write_str(Self, s)
                   [] call = "refresh_cmdline" -> refresh_cmdline(Self, <<>>)
                   [] call = "get_char" -> kb.t
                   [] call = "get_line" ->
                         IF edited THEN [kb.t EXCEPT !.panic = matched.panic] ELSE kb.t
            ret == CASE call = "get_char" /\ decoded -> key.result
                     [] edited -> matched.ret
                     [] OTHER -> None
        IN  /\ panic = None
            /\ Program[pc].do = "call"
            /\ Program[pc].on \in {"clear", "set_cursor_shape", "set_visual_cursor_pos",
                                   "set_color", "write_at", "write_fmt", "refresh_cmdline",
                                   "get_char", "get_line"}
            /\ guards # {}
            /\ last.n < MaxCalls
            /\ Done(t, call, <<>>, ret)
            /\ IF decoded THEN Advance(data) ELSE UNCHANGED kbdVars
            /\ cmdline_len' = IF edited THEN matched.cmdline_len ELSE cmdline_len
            /\ pc' = IF t.panic = None THEN Program[pc].to[1] ELSE pc
            /\ UNCHANGED <<locked, guards, value, ops, cmdline, handler>>

\* A branch: on the value the last call returned, or on what the banner
\* text or the line typed holds.
KernelBranch ==
    /\ panic = None
    /\ Program[pc].do \in {"if_some", "goto"}
    /\ pc' \in IF Program[pc].do = "goto"
               THEN {Program[pc].to[i] : i \in DOMAIN Program[pc].to}
               ELSE IF last.ret # None THEN {Program[pc].to[1]} ELSE {Program[pc].to[2]}
    /\ UNCHANGED <<mutexVars, kbdVars, termVars, handler>>

\* main from _start, with TERMINAL as Mutex::new(Terminal::new()) made it.
SpecKernel == Init /\ [][KernelLock \/ KernelDrop \/ KernelCall \/ KernelBranch]_vars

(***************************************************************************)
(* The claims.                                                             *)
(***************************************************************************)
\* The decoder state and the modifiers that call i of calls left behind.
StateAfter(i) == IF i = Len(calls) THEN state ELSE calls[i + 1].state

ModifiersAfter(i) == IF i = Len(calls) THEN modifiers ELSE calls[i + 1].modifiers

\* The scancodes fed by calls i .. j.
Fed(i, j) == [n \in 1 .. (j - i + 1) |-> calls[i + n - 1].scancode]

\* The bits of a Modifiers value.
AllBits == 0 .. 15

\* The printable-key scancodes: 0x02-0x0D, 0x10-0x1B, 0x1E-0x29, 0x2B-0x35.
PrintableRange ==
    (\h02 .. \h0D) \cup (\h10 .. \h1B) \cup (\h1E .. \h29) \cup (\h2B .. \h35)

\* C1: a printable-key scancode fed in the Neutral state yields the key's
\* unshifted character when no Shift is held and CapsLock is off, its shifted
\* character when exactly one of the two holds, and the unshifted one again
\* when both hold; the two characters of a key differ.
C1_PrintableFollowsShiftXorCaps ==
    \A i \in 1 .. Len(calls) :
        LET c == calls[i]
            held == shift(c.modifiers)
            caps == caps_lock(c.modifiers)
        IN  (c.state = Neutral /\ c.scancode \in PrintableRange) =>
                /\ Unshifted(c.scancode) # Shifted(c.scancode)
                /\ (~held /\ ~caps) => c.result = Some(Unshifted(c.scancode))
                /\ (held /\ ~caps) => c.result = Some(Shifted(c.scancode))
                /\ (~held /\ caps) => c.result = Some(Shifted(c.scancode))
                /\ (held /\ caps) => c.result = Some(Unshifted(c.scancode))

\* C1 witness: with CapsLock on and no Shift held, the digit key 0x02 gave '!';
\* with both, the letter key 0x1E gave 'a'.
C1_Witness ==
    \E i \in 1 .. Len(calls) :
        LET c == calls[i]
        IN  /\ c.state = Neutral
            /\ \/ /\ c.scancode = \h02
                  /\ caps_lock(c.modifiers) /\ ~shift(c.modifiers)
                  /\ c.result = Some("!")
               \/ /\ c.scancode = \h1E
                  /\ caps_lock(c.modifiers) /\ left_shift(c.modifiers)
                  /\ c.result = Some("a")

\* C2: from a decoder whose CapsLock key is not held, make 0x3A three times
\* and then break 0xBA leave the CapsLock value toggled exactly once.
C2_HeldCapsLockTogglesOnce ==
    \A i \in 1 .. Len(calls) :
        (/\ i + 3 <= Len(calls)
         /\ Fed(i, i + 3) = <<\h3A, \h3A, \h3A, \hBA>>
         /\ calls[i].state = Neutral
         /\ ~caps_lock_pressed(calls[i].modifiers))
        => caps_lock(ModifiersAfter(i + 3)) # caps_lock(calls[i].modifiers)

KeypadCodes == {\h47, \h48, \h49, \h4B, \h4C, \h4D, \h4F, \h50, \h51, \h52, \h53}

KeypadRange == \h47 .. \h53

Digits == {"0", "1", "2", "3", "4", "5", "6", "7", "8", "9"}

\* C4: in the Neutral state, whatever the other modifiers are, a keypad
\* scancode yields its digit ('.' for 0x53) when the NumLock value is active,
\* and every scancode of 0x47-0x53 yields nothing when it is not.
C4_KeypadNeedsNumLock ==
    \A i \in 1 .. Len(calls) :
        LET c == calls[i]
        IN  c.state = Neutral =>
                /\ (c.scancode \in KeypadCodes /\ num_lock(c.modifiers)) =>
                       /\ c.result = Some(KeypadChar(c.scancode))
                       /\ IF c.scancode = \h53
                          THEN c.result = Some(".")
                          ELSE c.result[1] \in Digits
                /\ (c.scancode \in KeypadRange /\ ~num_lock(c.modifiers)) =>
                       c.result = None

\* C4 witness: 0x47 gave '7' with NumLock active while Shift, Control, Alt and
\* CapsLock were all on, and a keypad scancode gave nothing without NumLock.
C4_Witness ==
    \E i \in 1 .. Len(calls) :
        LET c == calls[i]
        IN  /\ c.state = Neutral
            /\ c.scancode = \h47
            /\ num_lock(c.modifiers) /\ shift(c.modifiers) /\ control(c.modifiers)
            /\ alt(c.modifiers) /\ caps_lock(c.modifiers)
            /\ c.result = Some("7")

\* C5: from the initial decoder, NumLock pressed and released (0x45, 0xC5)
\* makes NumLock active, so that 0x47 then yields '7'; pressed and released a
\* second time it is inactive again, so that 0x47 yields nothing.
C5_NumLockPressReleaseActivates ==
    /\ (Len(calls) >= 3 /\ Fed(1, 3) = <<\h45, \hC5, \h47>>) =>
           /\ num_lock(calls[3].modifiers)
           /\ calls[3].result = Some("7")
    /\ (Len(calls) >= 5 /\ Fed(1, 5) = <<\h45, \hC5, \h45, \hC5, \h47>>) =>
           /\ ~num_lock(calls[5].modifiers)
           /\ calls[5].result = None

\* C6: from the initial decoder, for every printable key k, the sequence
\* shift-down 0x2A, k, shift-up 0xAA, k yields exactly two characters, the
\* shifted character of k and then the unshifted one ('I' then 'i' for 0x17);
\* the two Shift bytes yield nothing.
C6_ShiftDownKeyShiftUpKey ==
    \A k \in PrintableRange :
        (Len(calls) >= 4 /\ Fed(1, 4) = <<\h2A, k, \hAA, k>>) =>
            /\ calls[1].result = None
            /\ calls[2].result = Some(Shifted(k))
            /\ calls[3].result = None
            /\ calls[4].result = Some(Unshifted(k))
            /\ calls[1].result \o calls[2].result \o calls[3].result \o calls[4].result
                   = <<Shifted(k), Unshifted(k)>>
            /\ k = \h17 => (calls[2].result = Some("I") /\ calls[4].result = Some("i"))

\* C6 witness: 0x2A, 0x17, 0xAA, 0x17 was fed and gave 'I' then 'i'.
C6_Witness ==
    /\ Len(calls) = 4
    /\ Fed(1, 4) = <<\h2A, \h17, \hAA, \h17>>
    /\ calls[2].result = Some("I")
    /\ calls[4].result = Some("i")

\* C7: the decoder is in the extended-prefix state after a call exactly when
\* the byte fed was 0xE0 and the decoder was Neutral before it; every byte fed
\* in the extended-prefix state leaves the decoder Neutral; a 0xE0 byte yields
\* no character and changes no modifier bit.
C7_PrefixStateLastsOneByte ==
    \A i \in 1 .. Len(calls) :
        LET c == calls[i]
        IN  /\ StateAfter(i) = E0 <=> (c.scancode = \hE0 /\ c.state = Neutral)
            /\ c.state = E0 => StateAfter(i) = Neutral
            /\ c.scancode = \hE0 =>
                   (c.result = None /\ ModifiersAfter(i) = c.modifiers)

\* C7 witness: 0xE0 was fed twice in a row, and the second one left the
\* decoder Neutral.
C7_Witness ==
    /\ Len(calls) = 2
    /\ Fed(1, 2) = <<\hE0, \hE0>>
    /\ calls[1].state = Neutral
    /\ calls[2].state = E0
    /\ state = Neutral

\* C8: whatever the modifiers are, 0xE0 fed to a Neutral decoder yields
\* nothing, 0xE0 and then 0x1C yield exactly one character, the newline, on
\* the second byte, and 0x1C without the prefix yields the newline too.
C8_EnterWithAndWithoutPrefix ==
    /\ \A i \in 1 .. Len(calls) :
           LET c == calls[i]
           IN  /\ (c.state = Neutral /\ c.scancode = \hE0) => c.result = None
               /\ (c.state = Neutral /\ c.scancode = \h1C) => c.result = Some("\n")
    /\ (Len(calls) = 2 /\ calls[1].state = Neutral /\ Fed(1, 2) = <<\hE0, \h1C>>) =>
           /\ calls[1].result = None
           /\ calls[2].result = Some("\n")
           /\ calls[1].result \o calls[2].result = <<"\n">>

\* C8 witness: 0xE0 then 0x1C was fed to a Neutral decoder holding Shift,
\* Control and both lock values, and the second byte gave the newline.
C8_Witness ==
    /\ Len(calls) = 2
    /\ calls[1].state = Neutral
    /\ Fed(1, 2) = <<\hE0, \h1C>>
    /\ shift(modifiers) /\ control(modifiers) /\ caps_lock(modifiers) /\ num_lock(modifiers)
    /\ calls[2].result = Some("\n")

\* C9: a lock() made while a guard is alive returns no guard and panics
\* with 'Mutex already locked'; lock() never waits: while the kernel runs, a
\* call can always be made, whether the Mutex is locked or not, and it ends in
\* that one step with a guard or with the panic.
C9_LockWhileHeldAborts ==
    /\ \A i \in 1 .. Len(ops) :
           ops[i].op = "lock" =>
               IF ops[i].held
               THEN /\ ops[i].guard = None
                    /\ panic = Some("Mutex already locked")
                    /\ i = Len(ops)
               ELSE ops[i].guard # None
    /\ panic # None => (Len(ops) > 0 /\ ops[Len(ops)].op = "lock" /\ ops[Len(ops)].held)
    /\ (panic = None /\ Len(ops) < MaxOps) => ENABLED lock

\* C9 witness: a second lock() was made while the first guard was alive, and
\* the kernel panicked.
C9_Witness ==
    /\ panic = Some("Mutex already locked")
    /\ Cardinality(guards) = 1
    /\ locked
    /\ Len(ops) >= 2
    /\ ops[Len(ops)].op = "lock"
    /\ ops[Len(ops)].guard = None

\* C10: the locked flag is true exactly when one guard is alive, at most one
\* guard is ever alive, and after a guard is dropped, on whatever exit path,
\* the flag is false and the next lock() returns a guard.
C10_LockedIffOneGuard ==
    /\ locked <=> Cardinality(guards) = 1
    /\ Cardinality(guards) <= 1
    /\ (Len(ops) > 0 /\ ops[Len(ops)].op = "drop") => ~locked
    /\ \A i \in 1 .. Len(ops) :
           (ops[i].op = "drop" /\ i < Len(ops) /\ ops[i + 1].op = "lock") =>
               ops[i + 1].guard # None

\* C10 witness: a guard was dropped at a break out of its block and the
\* lock() that followed returned a guard, which is alive.
C10_Witness ==
    \E i \in 1 .. Len(ops) :
        /\ i < Len(ops)
        /\ ops[i].op = "drop"
        /\ ops[i].exit = "break"
        /\ ops[i + 1].op = "lock"
        /\ ops[i + 1].guard # None
        /\ locked
        /\ Cardinality(guards) = 1

\* The cells from index k on show the text in the current colour.
Shown(k, text) ==
    \A i \in 1 .. Len(text) :
        /\ k + i - 1 \in Cells
        /\ buffer[k + i - 1] = cell(current_color, AsciiGlyph[text[i]])

\* The record of crash_and_burn's acquire in ops.
HandlerAcquires == {i \in 1 .. Len(ops) : ops[i].op = "lock_unchecked"}

\* The port accesses of the last operation that are the shutdown write.
ShutdownWrites == {i \in 1 .. Len(last.io) : last.io[i].op = "outw"}

\* C11: once the kernel has panicked with a terminal guard alive, the handler
\* has a guard from the unchecked acquire and no second panic; the screen
\* shows the description of the panic and, in the cursor's row, the prompt;
\* and every write to the shutdown port comes after a read of the keyboard
\* data port that gave 0x01.
C11_HandlerReportsThenWaitsForEscape ==
    /\ handler # "idle" =>
          /\ handler \in {"waiting", "off"}
          /\ \E i \in HandlerAcquires : ops[i].held /\ ops[i].guard # None
          /\ Shown(cursor_y * VGA_BUFFER_WIDTH, Tail(PRESS_ESC))
          /\ \E k \in ((cursor_y - 2) * VGA_BUFFER_WIDTH) .. (cursor_y * VGA_BUFFER_WIDTH - 1) :
                Shown(k, description(panic[1]))
    /\ handler = "off" => ShutdownWrites # {}
    /\ \A i \in ShutdownWrites :
          /\ last.io[i].port = \h604
          /\ \E j \in 1 .. (i - 1) :
                last.io[j] = [op |-> "inb", port |-> \h60, val |-> ESCAPE_MAKE]

\* The kernel panicked on a second lock(), the handler printed and the
\* machine was shut down.
C11_Witness ==
    /\ handler = "off"
    /\ panic = Some("Mutex already locked")
    /\ \E i \in HandlerAcquires : ops[i].held

\* C12: after every completed operation of the driver the cursor is on the
\* screen: cursor_x < 80 and cursor_y <= 24.
C12_CursorStaysOnScreen ==
    (last.n > 0 /\ panic = None) =>
        /\ 0 <= cursor_x /\ cursor_x < 80
        /\ 0 <= cursor_y /\ cursor_y <= 24

\* The cells of the first row of the lettered screen.
FirstRowCells == {LetteredScreen[col] : col \in 0 .. (VGA_BUFFER_WIDTH - 1)}

\* C13: from a cursor in row 0, after 25 newlines cursor_y is 24 and no cell
\* holds what a cell of the old row 0 held; every putchar after that ends
\* without a panic and writes cells of index 0 .. 1999 only.
C13_TwentyFiveNewlinesScrollOnce ==
    /\ last.n = 25 =>
          /\ cursor_y = 24
          /\ \A i \in 0 .. 1999 : buffer[i] \notin FirstRowCells
    /\ last.n > 25 =>
          /\ panic = None
          /\ last.written \subseteq 0 .. 1999
          /\ cursor_y <= 24

\* After the 25 newlines two characters were put, the last one a letter.
C13_Witness ==
    /\ last.n = 27
    /\ last.args = <<"a">>
    /\ Cardinality(last.written) = 1
    /\ panic = None

\* C14: write_at(x, y, g) with x < 80 and y < 25 makes cell (x, y) the current
\* colour and g, and leaves every other cell, the cursor and the colour as
\* they were.
C14_WriteAtWritesOneCell ==
    [][(last'.op = "write_at" /\ last'.args[1] < 80 /\ last'.args[2] < 25) =>
          /\ panic' = None
          /\ buffer' = [buffer EXCEPT ![last'.args[2] * 80 + last'.args[1]] =
                                          current_color * 256 + last'.args[3]]
          /\ cursor_x' = cursor_x
          /\ cursor_y' = cursor_y
          /\ current_color' = current_color]_vars

\* write_at(79, 24, 0x41) was made with the second colour.
C14_Witness ==
    /\ last.op = "write_at"
    /\ last.args = <<79, 24, \h41>>
    /\ current_color = \h4E
    /\ buffer[1999] = \h4E41

\* C15: write_at and write_byte with x >= 80 or y >= 25 panic and write no
\* cell: the buffer is as it was.
C15_OutOfRangeWriteAborts ==
    [][(last'.op \in {"write_at", "write_byte"}
        /\ (last'.args[1] >= 80 \/ last'.args[2] >= 25)) =>
          /\ panic' # None
          /\ last'.written = {}
          /\ buffer' = buffer]_vars

\* write_byte was given column 80 of row 0.
C15_Witness ==
    /\ last.op = "write_byte"
    /\ last.args[1] = 80
    /\ last.args[2] = 0
    /\ panic = Some("assertion failed: x < VGA_BUFFER_WIDTH")

\* The characters the decoder has given to get_line, and those that are
\* neither the newline nor the backspace.
Decoded == SelectSeq([i \in 1 .. Len(calls) |-> calls[i].result], LAMBDA r : r # None)

Typed == SelectSeq(Decoded, LAMBDA r : r[1] \notin {"\n", Backspace})

\* C16: get_line returns nothing for each character typed, without a panic,
\* and when Enter follows characters only it returns them as the line and
\* leaves the length 0.
C16_TypedLineIsReturned ==
    /\ Typed # <<>> => panic = None
    /\ (Decoded # <<>> /\ Decoded = Append(Typed, Some("\n"))) =>
          /\ last.ret = Some([i \in 1 .. Len(Typed) |-> AsciiGlyph[Typed[i][1]]])
          /\ cmdline_len = 0

BLANK_GLYPHS == {\h00, \h20, \hFF}

\* C18: putchar of a newline with the cursor in row 24 moves every row up by
\* one, fills row 24 with blank cells of the current colour and leaves the
\* cursor at (0, 24); in a row above, it changes no cell and moves the cursor
\* to column 0 of the next row.
C18_NewlineScrollsOnLastRow ==
    [][(last'.op = "putchar" /\ last'.args = <<"\n">>) =>
          IF cursor_y = 24
          THEN /\ \A r \in 0 .. 23, col \in 0 .. 79 :
                     buffer'[r * 80 + col] = buffer[(r + 1) * 80 + col]
               /\ \A col \in 0 .. 79 :
                     /\ buffer'[24 * 80 + col] \div 256 = current_color
                     /\ buffer'[24 * 80 + col] % 256 \in BLANK_GLYPHS
               /\ cursor_x' = 0
               /\ cursor_y' = 24
          ELSE /\ buffer' = buffer
               /\ cursor_x' = 0
               /\ cursor_y' = cursor_y + 1]_vars

\* A newline scrolled the lettered screen: row 0 shows the second row's
\* letters and row 24 is blank.
C18_Witness ==
    /\ last.op = "putchar"
    /\ last.args = <<"\n">>
    /\ cursor_y = 24
    /\ buffer[0] = LetteredScreen[80]
    /\ buffer[1999] = current_color * 256

\* The glyph putchar is to write for a character: its own, or the black
\* square's.
ExpectedGlyph(c) == IF c \in DOMAIN AsciiGlyph THEN AsciiGlyph[c] ELSE BlackSquareGlyph

\* C19: putchar of a character other than newline, carriage return and tab
\* writes one cell, the cursor's, with the character's glyph or the
\* replacement glyph and the current colour, without a panic; then the cursor
\* is one column further, or, from column 79, at column 0 of the next row,
\* after a scroll when the row was 24.
C19_PutcharWritesCellAtCursor ==
    [][(last'.op = "putchar" /\ last'.args[1] \notin {"\n", "\r", "\t"}) =>
          LET at == cursor_y * 80 + cursor_x
              wrote == [buffer EXCEPT ![at] = current_color * 256 + ExpectedGlyph(last'.args[1])]
          IN  /\ panic' = None
              /\ last'.written = {at}
              /\ IF cursor_x < 79
                 THEN buffer' = wrote /\ cursor_x' = cursor_x + 1 /\ cursor_y' = cursor_y
                 ELSE IF cursor_y < 24
                 THEN buffer' = wrote /\ cursor_x' = 0 /\ cursor_y' = cursor_y + 1
                 ELSE /\ \A i \in 0 .. 1919 : buffer'[i] = wrote[i + 80]
                      /\ cursor_x' = 0
                      /\ cursor_y' = 24]_vars

\* A character without a glyph was put: the cell before the cursor shows the
\* black square.
C19_Witness ==
    /\ last.op = "putchar"
    /\ last.args = <<EAcute>>
    /\ panic = None
    /\ cursor_x > 0
    /\ buffer[cursor_y * 80 + cursor_x - 1] = current_color * 256 + BlackSquareGlyph

\* The smallest multiple of 4 strictly greater than x.
NextTabStop(x) ==
    CHOOSE m \in 1 .. (x + 4) : m % 4 = 0 /\ m > x /\ \A k \in (x + 1) .. (m - 1) : k % 4 # 0

\* C20: putchar of a tab writes no cell and moves cursor_x to the smallest
\* multiple of 4 greater than it; when that is 80 it makes a newline instead:
\* cursor_x is 0, in the next row, or in row 24 after a scroll.
C20_TabStopsAndWraps ==
    [][(last'.op = "putchar" /\ last'.args = <<"\t">>) =>
          /\ panic' = None
          /\ last'.written = {}
          /\ cursor_x' # 80
          /\ IF NextTabStop(cursor_x) < 80
             THEN /\ cursor_x' = NextTabStop(cursor_x)
                  /\ cursor_y' = cursor_y
                  /\ buffer' = buffer
             ELSE /\ cursor_x \in 76 .. 79
                  /\ cursor_x' = 0
                  /\ cursor_y' = IF cursor_y < 24 THEN cursor_y + 1 ELSE 24
                  /\ cursor_y < 24 => buffer' = buffer]_vars

\* A tab was put from one of the last four columns: the cursor is at column
\* 0.
C20_Witness ==
    /\ last.op = "putchar"
    /\ last.args = <<"\t">>
    /\ cursor_x = 0
    /\ panic = None

\* The writes of the last operation to the CRT controller's data port.
DataWrites == {i \in 1 .. Len(last.io) : last.io[i].op = "outb" /\ last.io[i].port = \h3D5}

\* C21: after every completed putchar register 0x0F holds the low byte and
\* register 0x0E the high byte of cursor_y * 80 + cursor_x, the position
\* after the wrap and the scroll; and every write to port 0x3D5 comes right
\* after the write to port 0x3D4 that selects its register, which makes the
\* last write to 0x0F the low byte and the last write to 0x0E the high byte.
C21_HardwareCursorFollowsCursor ==
    (last.op = "putchar" /\ panic = None) =>
        LET pos == cursor_y * 80 + cursor_x
        IN  /\ crtc.regs[\h0F] = pos % 256
            /\ crtc.regs[\h0E] = (pos \div 256) % 256
            /\ DataWrites # {}
            /\ \A i \in DataWrites :
                  /\ i > 1
                  /\ last.io[i - 1].op = "outb"
                  /\ last.io[i - 1].port = \h3D4
                  /\ last.io[i - 1].val \in {\h0E, \h0F}
                  /\ last.io[i].val = crtc.regs[last.io[i - 1].val]

\* A letter was put in the last cell of the screen: after the wrap and the
\* scroll the cursor is at (0, 24), offset 1920, and the registers hold 0x80
\* and 0x07.
C21_Witness ==
    /\ last.op = "putchar"
    /\ last.args = <<"a">>
    /\ last.written = {1999}
    /\ cursor_x = 0
    /\ cursor_y = 24
    /\ crtc.regs[\h0F] = \h80
    /\ crtc.regs[\h0E] = \h07

\* C22: get_char reads the status port once and first. With bit 0 clear it
\* reads nothing else, returns nothing and leaves the decoder as it was; with
\* bit 0 set it reads the data port once, gives that byte to advance once and
\* returns what advance returned, one character at most.
C22_GetCharSamplesOnce ==
    [][last'.op = "get_char" =>
          /\ Len(last'.io) >= 1
          /\ last'.io[1].op = "inb"
          /\ last'.io[1].port = \h64
          /\ IF last'.io[1].val % 2 = 0
             THEN /\ Len(last'.io) = 1
                  /\ last'.ret = None
                  /\ state' = state
                  /\ modifiers' = modifiers
                  /\ calls' = calls
             ELSE /\ Len(last'.io) = 2
                  /\ last'.io[2].op = "inb"
                  /\ last'.io[2].port = \h60
                  /\ Len(calls') = Len(calls) + 1
                  /\ calls'[Len(calls')].scancode = last'.io[2].val
                  /\ last'.ret = calls'[Len(calls')].result
                  /\ Len(last'.ret) <= 1]_vars

\* get_char found the status bit clear: one port read, no call of advance.
C22_Witness ==
    /\ last.op = "get_char"
    /\ Len(last.io) = 1
    /\ last.io[1].val = \h1C
    /\ calls = <<>>

\* The make and break codes of Control and Alt, and the bit each one is to
\* change: bits 0 and 1 are left and right Control, 4 and 5 left and right
\* Alt; the left key in the Neutral state, the right key after 0xE0.
ControlAltCodes == {\h1D, \h9D, \h38, \hB8}

ControlAltBit(st, scancode) ==
    (IF scancode \in {\h1D, \h9D} THEN 0 ELSE 4) + (IF st = Neutral THEN 0 ELSE 1)

\* C23: 0x1D, 0x9D, 0x38 and 0xB8 change one bit only, the left key's in the
\* Neutral state and the right key's after 0xE0; the make sets it, the break
\* clears it, none yields a character; and after a Control code control() is
\* true exactly when that code was a make or the other Control key is held.
C23_ControlAndAltByState ==
    \A i \in 1 .. Len(calls) :
        LET c == calls[i]
            bit == ControlAltBit(c.state, c.scancode)
            after == ModifiersAfter(i)
        IN  c.scancode \in ControlAltCodes =>
                /\ c.result = None
                /\ is_bit_set(after, bit) = (c.scancode < \h80)
                /\ \A b \in AllBits \ {bit} : is_bit_set(after, b) = is_bit_set(c.modifiers, b)
                /\ c.scancode \in {\h1D, \h9D} =>
                       control(after) = (c.scancode = \h1D \/ is_bit_set(c.modifiers, 1 - bit))

\* 0xE0 then 0x1D was fed to a decoder with no Control key held: right
\* Control is held afterwards, left Control is not.
C23_Witness ==
    /\ Len(calls) = 2
    /\ Fed(1, 2) = <<\hE0, \h1D>>
    /\ ~control(calls[1].modifiers)
    /\ right_control(modifiers)
    /\ ~left_control(modifiers)
    /\ control(modifiers)

\* The codes of the modifier and lock keys in each state, and the codes of
\* the keys that yield a character.
ModifierOrLockCodes(st) ==
    IF st = Neutral
    THEN {\h2A, \hAA, \h36, \hB6, \h1D, \h9D, \h38, \hB8, \h3A, \hBA, \h45, \hC5}
    ELSE {\h1D, \h9D, \h38, \hB8}

CharacterCodes(st) ==
    IF st = Neutral
    THEN PrintableRange \cup KeypadCodes \cup {\h39, \h1C, \h0E, \h0F, \h01}
    ELSE {\h35, \h1C}

\* C24: a byte that is no modifier or lock code in the decoder's state leaves
\* the modifiers as they were; a byte that no arm matches, such as the break
\* code 0x80 | k of a key that yields a character, yields nothing; and advance
\* takes every state, byte and Modifiers value: for each of the 256 bytes it
\* returns a state, a Modifiers and at most one character.
C24_UnmatchedBytesChangeNothing ==
    /\ calls = <<>> =>
           \A byte \in 0 .. 255 :
               LET r == advance(state, modifiers, byte)
               IN  r.state \in {Neutral, E0} /\ r.modifiers \in 0 .. 65535 /\ Len(r.result) <= 1
    /\ \A i \in 1 .. Len(calls) :
           LET c == calls[i]
           IN  /\ StateAfter(i) \in {Neutral, E0}
               /\ ModifiersAfter(i) \in 0 .. 65535
               /\ Len(c.result) <= 1
               /\ c.scancode \notin ModifierOrLockCodes(c.state) =>
                      ModifiersAfter(i) = c.modifiers
               /\ c.scancode \notin ModifierOrLockCodes(c.state) \cup CharacterCodes(c.state) =>
                      c.result = None
               /\ (c.scancode >= \h80 /\ c.scancode - \h80 \in CharacterCodes(Neutral)) =>
                      c.result = None

\* 0xE0 then 0x2A, which no arm matches after the prefix, was fed to a
\* decoder with no Shift held: nothing came out and no Shift is held.
C24_Witness ==
    /\ Len(calls) = 2
    /\ calls[1].state = Neutral
    /\ Fed(1, 2) = <<\hE0, \h2A>>
    /\ calls[2].result = None
    /\ modifiers = calls[1].modifiers
    /\ ~shift(modifiers)

\* The step is a get_line that decoded the backspace character.
BackspaceDecoded ==
    /\ last'.op = "get_line"
    /\ Len(calls') = Len(calls) + 1
    /\ calls'[Len(calls')].result = Some(Backspace)

\* C25: when get_line decodes a Backspace with no Control key held, the
\* length goes down by one, or stays 0 when the line is empty; the bytes of
\* the line stay, so what is left is the line without its last character; the
\* call returns nothing and does not panic.
C25_BackspaceRemovesLastCharacter ==
    [][(BackspaceDecoded /\ ~is_bit_set(modifiers', 0) /\ ~is_bit_set(modifiers', 1)) =>
          /\ cmdline_len' = (IF cmdline_len = 0 THEN 0 ELSE cmdline_len - 1)
          /\ cmdline_len' \in 0 .. cmdline_len
          /\ cmdline' = cmdline
          /\ last'.ret = None
          /\ panic' = None]_vars

\* A Backspace without Control was decoded on an empty line: the length is
\* still 0.
C25_Witness ==
    /\ last.op = "get_line"
    /\ last.n = 1
    /\ calls # <<>>
    /\ calls[Len(calls)].result = Some(Backspace)
    /\ ~control(modifiers)
    /\ cmdline_len = 0
    /\ cmdline = ZeroLine
    /\ panic = None

\* The length of the line without the whitespace it ends with, and without
\* the word before that whitespace.
WithoutTrailing(line, len, unwanted(_)) ==
    CHOOSE k \in 0 .. len :
        /\ \A p \in (k + 1) .. len : unwanted(line[p])
        /\ k > 0 => ~unwanted(line[k])

WordDeleted(line, len) ==
    LET is_word(byte) == ~is_whitespace(byte)
    IN  WithoutTrailing(line, WithoutTrailing(line, len, is_whitespace), is_word)

\* C26: when get_line decodes a Backspace with a Control key held, the line
\* becomes its prefix without the whitespace it ended with and without the
\* word before it: it is empty or ends with a whitespace character; the call
\* returns nothing and does not panic.
C26_ControlBackspaceDeletesWord ==
    [][(BackspaceDecoded /\ (is_bit_set(modifiers', 0) \/ is_bit_set(modifiers', 1))) =>
          /\ cmdline_len' = WordDeleted(cmdline, cmdline_len)
          /\ cmdline_len' = 0 \/ is_whitespace(cmdline[cmdline_len'])
          /\ cmdline' = cmdline
          /\ last'.ret = None
          /\ panic' = None]_vars

\* A Backspace with right Control held was decoded on a line of words: the
\* line ends after the space at position 126.
C26_Witness ==
    /\ last.op = "get_line"
    /\ last.n = 1
    /\ calls # <<>>
    /\ calls[Len(calls)].result = Some(Backspace)
    /\ right_control(modifiers)
    /\ cmdline = WordsLine
    /\ cmdline_len = 126
    /\ panic = None

\* Every cell of the screen is the space glyph in the current colour: what
\* clear() leaves.
Cleared == \A i \in 0 .. 1999 : buffer[i] = current_color * 256 + \h20

\* C27: a scroll of a cleared screen leaves it cleared: the cells of the new
\* last row are the cells clear() writes, the current colour and glyph 0x20.
C27_ScrollKeepsScreenCleared ==
    [][(Cleared /\ cursor_y = 24 /\ last'.op = "putchar" /\ last'.args = <<"\n">>) =>
          \A i \in 0 .. 1999 : buffer'[i] = current_color * 256 + \h20]_vars

\* C28: from VgaBuffer::new(), no sequence of putchar, write_str, clear and
\* set_color panics, and the cursor stays where write_byte's assertions
\* hold: cursor_x < 80 and cursor_y < 25.
C28_PrintingNeverAborts ==
    /\ panic = None
    /\ cursor_x < 80
    /\ cursor_y < 25

\* After 24 newlines and 79 letters a letter was put in the last cell of the
\* screen: the line wrapped and the screen scrolled.
C28_Witness ==
    /\ last.n = 3
    /\ last.op = "putchar"
    /\ last.args = <<"a">>
    /\ last.written = {1999}
    /\ cursor_x = 0
    /\ cursor_y = 24
    /\ panic = None

\* The key with make code make and break code break is down before call i:
\* its make code was fed and its break code was not fed since.
HeldBefore(i, make, break) ==
    \E j \in 1 .. i - 1 :
        /\ calls[j].scancode = make
        /\ \A k \in j + 1 .. i - 1 : calls[k].scancode # break

\* C29: the two Shift keys are tracked apart: with CapsLock off a printable
\* key yields its shifted character exactly while the left Shift (0x2A, 0xAA)
\* or the right Shift (0x36, 0xB6) is down, so that after both were pressed
\* the release of one of them leaves shift() true and the key shifted, until
\* the other one is released too.
C29_ShiftKeysTrackedApart ==
    \A i \in 1 .. Len(calls) :
        LET down == HeldBefore(i, \h2A, \hAA) \/ HeldBefore(i, \h36, \hB6)
            k == calls[i].scancode
        IN  /\ shift(calls[i].modifiers) <=> down
            /\ k \in PrintableRange =>
                   calls[i].result = Some(IF down THEN Shifted(k) ELSE Unshifted(k))

\* C29 witness: both Shift keys were pressed, the left one was released, and
\* the key 0x17 gave 'I'.
C29_Witness ==
    /\ Len(calls) = 4
    /\ Fed(1, 4) = <<\h2A, \h36, \hAA, \h17>>
    /\ shift(calls[4].modifiers)
    /\ calls[4].result = Some("I")

\* C30: a byte 0x47..0x53 fed right after the 0xE0 prefix yields no character,
\* whatever NumLock and the other modifiers are; the bytes that yield a
\* character after the prefix are 0x1C, the newline, and 0x35, '/' whatever
\* Shift and CapsLock are.
C30_PrefixedKeysYieldNoCharacter ==
    \A i \in 1 .. Len(calls) :
        calls[i].state = E0 =>
            /\ calls[i].scancode \in \h47 .. \h53 => calls[i].result = None
            /\ calls[i].result # None => calls[i].scancode \in {\h1C, \h35}
            /\ calls[i].scancode = \h1C => calls[i].result = Some("\n")
            /\ calls[i].scancode = \h35 => calls[i].result = Some("/")

\* C30 witness: Home, 0x47, came after the prefix with NumLock on and gave no
\* character.
C30_Witness ==
    /\ Len(calls) = 1
    /\ calls[1].state = E0
    /\ calls[1].scancode = \h47
    /\ num_lock(calls[1].modifiers)
    /\ calls[1].result = None

\* C31: in the run of main (the banner, the clear, the REPL with its commands
\* and their printk! calls) every TERMINAL.lock() is made with no guard
\* alive and the flag clear, so that no run panics with "Mutex already
\* locked"; the guard `lock` that repl holds while it reads the line is
\* released before the printk! that prints the line takes its own.
C31_NoLockWhileGuardAlive ==
    /\ panic # Some("Mutex already locked")
    /\ Program[pc].do = "lock" => (guards = {} /\ locked = FALSE)
    /\ Program[pc].do \in {"call", "drop"} => (Cardinality(guards) = 1 /\ locked = TRUE)
    /\ pc \in {"repl:70", "repl:70 write_fmt", "repl:70;"} => "lock" \notin guards
    /\ \A l \in DOMAIN Program :
           \A i \in DOMAIN Program[l].to : Program[l].to[i] \in DOMAIN Program

\* get_line returned a line, repl left the block of `lock`, and the printk!
\* of line 70 printed through a guard of its own.
C31_Witness ==
    /\ pc = "repl:70;"
    /\ last.op = "write_fmt"
    /\ guards = {"temporary"}
    /\ locked = TRUE
    /\ calls # <<>>
    /\ calls[Len(calls)].result = Some("\n")
    /\ panic = None

====
